---- MODULE Spec2Model ----
(***************************************************************************)
(* A model of the satellite dashboard's analysis engine:                   *)
(*   - computeTracksAndConjunctions (sample times, propagation, pairwise   *)
(*     minimum-distance search, publication),                              *)
(*   - classifyOrbitType (the dashboard's and the data hook's),            *)
(*   - parseTLEs.                                                          *)
(* Times are milliseconds, distances kilometres, mean motion micro-radians *)
(* per minute; all are integers.                                           *)
(***************************************************************************)
EXTENDS Integers, Sequences, FiniteSets, TLC

(***************************************************************************)
(* Bounds of the model.                                                    *)
(***************************************************************************)
\* The sample-time loop is followed for at most this many pushes; a loop that
\* would push more stays in "sampling" (it is never cut short and continued).
MaxSamples == 3
\* Satellites times nominal samples of the runs that are explored.
MaxEvals == 6

(***************************************************************************)
(* Inputs of the analysis run.                                             *)
(***************************************************************************)
\* Values of new Date().getTime() at the start of a run.
StartTimes == {5000}
\* Values the three number inputs can hold (Number(e.target.value)).
ThresholdChoices == {0, 3, 5}
WindowChoices == {-1, 0, 1, 2}
SampleChoices == {-30, 0, 45, 60}
\* ECI positions satellite.propagate can return, chosen so that every
\* distance between two of them is a whole number of kilometres (0, 3, 4, 5).
Positions == {<<0, 0, 0>>, <<3, 0, 0>>, <<0, 4, 0>>}
\* What satellite.propagate does at one (satrec, when): a position, a result
\* whose position is false/undefined, or an exception.
PropagateResults ==
  [kind : {"pos"}, position : Positions] \cup
  {[kind |-> "nopos", position |-> <<0, 0, 0>>], [kind |-> "throw", position |-> <<0, 0, 0>>]}

MkSat(n, tag) ==
  [name |-> n, l1 |-> <<"1", " ", tag>>, l2 |-> <<"2", " ", tag>>, orbitType |-> "LEO", altKm |-> 500]
\* Satellite lists loadTLEs can have stored (bare 2-line groups get the
\* placeholder name 'Unknown Satellite').
SatLists ==
  { <<>>,
    <<MkSat("ISS (ZARYA)", "a")>>,
    <<MkSat("ISS (ZARYA)", "a"), MkSat("TIANMU-1 20", "b")>>,
    <<MkSat("ISS (ZARYA)", "a"), MkSat("Unknown Satellite", "b"), MkSat("Unknown Satellite", "c")>> }

(***************************************************************************)
(* Inputs of classifyOrbitType.                                            *)
(***************************************************************************)
\* Altitude bands (km) and fallback period bands (minutes) of the code.
LeoMaxAltKm == 2000
MeoMaxAltKm == 35000
GeoAltKm == 35786
LeoMaxPeriodMin == 200
MeoMaxPeriodMin == 1200
\* 2 * Math.PI in micro-radians.
TwoPiMicro == 6283185
\* Geodetic altitudes (km) of a successful propagation.
ClassAltitudes == {0, 1999, 2000, 2001, 34999, 35000, 35001, 35785, 35786, 35787}
\* satrec.no in micro-radians per minute: periods of 95, 199.99, 200.01, 600,
\* 1199.99, 1200.2 and 1440 minutes, and 0 (no motion).
MeanMotions == {66139, 31416, 31415, 10472, 5236, 5235, 4363, 0}
\* What satellite.propagate does at the reference time.
ClassOutcomes ==
  [kind : {"pos"}, alt : ClassAltitudes] \cup
  {[kind |-> "nopos", alt |-> 0], [kind |-> "throw", alt |-> 0]}

(***************************************************************************)
(* Inputs of parseTLEs.                                                    *)
(***************************************************************************)
\* Raw lines of the text (the pieces text.split(/\r?\n/) yields) per input.
MaxLines == 7
LineKinds == {"L1", "L2", "NM", "BL"}
Tags == <<"a", "b", "c", "d", "e", "f", "g", "h", "k">>
\* The raw line of a kind at position p, a sequence of characters.  Its last
\* visible character is the position's tag, so no two lines of a text are
\* equal.  An "L2" line is padded with blanks, a "BL" line is only blanks, an
\* "NM" line is a name that starts with the character 1 but not with "1 ".
RawLine(kind, p) ==
  CASE kind = "L1" -> <<"1", " ", Tags[p]>>
    [] kind = "L2" -> <<" ", "2", " ", Tags[p], " ">>
    [] kind = "NM" -> <<"1", "W", Tags[p]>>
    [] kind = "BL" -> <<" ">>

VARIABLES
  \* React state of SatelliteDashboard
  sats, tracks, conjunctions, alerts, thresholdKm, windowMinutes, sampleSec, running,
  toast,          \* title of the last toast shown ("" before any)
  \* computeTracksAndConjunctions: position and locals
  pc, now, end, t, samples, satSamples, si, ti, i, j, conjCandidates,
  \* history: what satellite.propagate returned ok (TRUE) or not, per satellite
  \* and sample, and the locals of every iteration of the pair loop
  propLog, pairLog,
  \* classifyOrbitType: the satrec classified (its mean motion and what
  \* propagate does with it) and what each implementation returned
  satrec, dashClass, hookClass,
  \* parseTLEs: the text, the position of the call and the returned sets
  tleText, parsePc, sets,
  \* the k loop of one pair applied on its own: the two trajectories, the
  \* threshold, the position of the call and what it pushed
  trajA, trajB, detThr, detPc, detOut,
  \* SatelliteDashboard as a whole: the loading and autoLoaded state, whether
  \* the autoLoaded effect is due, the requests in flight and the timers set
  \* by setTimeout (each holds the render it was created in), the number of
  \* requests started, what the last handler was and saw, and whether a
  \* button has been clicked since the dashboard was mounted
  loading, autoLoaded, effectDue, fetches, timers, fetchCount, lastRun, userActed,
  \* the risk functions of MeteorTracker, SpaceDebrisTracker and
  \* useRealTimeSpaceData: which input was drawn, the input, the handlers that
  \* have run, and what each of them stored or returned
  riskKind, riskIn, riskDone, meteors, impactRisks, hookMeteor, probeOut, debrisRisk,
  collisionRisks,
  \* CollisionAnalyzer: its props (how many elements of each kind every list
  \* holds), its analysis state and whether performCollisionAnalysis has run
  analyzerProps, analysis, analysed,
  \* useRealTimeSpaceData: whether its effect has run, its loading state, the
  \* fetchAllData calls started and in flight, the counts and the value of
  \* Math.random() of the last call that settled, and the collisionRisks and
  \* conjunctions of data
  hookMounted, hookLoading, hookStarted, hookInFlight, hookDraw, hookData

dashVars == <<sats, tracks, conjunctions, alerts, thresholdKm, windowMinutes, sampleSec, running, toast>>
runVars == <<pc, now, end, t, samples, satSamples, si, ti, i, j, conjCandidates, propLog, pairLog>>
classVars == <<satrec, dashClass, hookClass>>
parseVars == <<tleText, parsePc, sets>>
detVars == <<trajA, trajB, detThr, detPc, detOut>>
asyncVars == <<loading, autoLoaded, effectDue, fetches, timers, fetchCount, lastRun, userActed>>
riskVars == <<riskKind, riskIn, riskDone, meteors, impactRisks, hookMeteor, probeOut, debrisRisk,
              collisionRisks>>
analyzerVars == <<analyzerProps, analysis, analysed>>
hookVars == <<hookMounted, hookLoading, hookStarted, hookInFlight, hookDraw, hookData>>
auxVars == <<detVars, asyncVars, riskVars, analyzerVars, hookVars>>
vars == <<dashVars, runVars, classVars, parseVars, auxVars>>

(***************************************************************************)
(* Helpers                                                                 *)
(***************************************************************************)
Null == [isNull |-> TRUE]
NullTime == -1
Infinity == [inf |-> TRUE, v |-> 0]
Fin(d) == [inf |-> FALSE, v |-> d]

Min(a, b) == IF a < b THEN a ELSE b

\* Math.sqrt on the perfect squares the position set produces.
Sqrt(n) == CHOOSE r \in 0..n : r * r = n

\* d = Math.sqrt(dx*dx + dy*dy + dz*dz)
Distance_Signed(a, b) == (a[1] - b[1]) + (a[2] - b[2]) + (a[3] - b[3])
Distance(a, b) ==
  LET dx == a[1] - b[1]
      dy == a[2] - b[2]
      dz == a[3] - b[3]
  IN Sqrt(dx * dx + dy * dy + dz * dz)

\* propagateEci: null when the result has no position or propagate throws.
propagateEci(res) == IF res.kind = "pos" THEN res.position ELSE Null

\* if (eci) s.positions.push({t: when, eci})
PushIfPropagated_Reset(positions, when, eci) ==
  IF eci = Null THEN <<>> ELSE Append(positions, [t |-> when, eci |-> eci])
PushIfPropagated(positions, when, eci) ==
  IF eci = Null THEN positions ELSE Append(positions, [t |-> when, eci |-> eci])

\* for (let t = now.getTime(); t <= end.getTime(); ...)
SampleLoopContinues_Exclusive(tt, e) == tt < e
SampleLoopContinues(tt, e) == tt <= e

\* t += sampleSec * 1000
NextSampleTime_NoMillis(tt, step) == tt + step
NextSampleTime(tt, step) == tt + step * 1000

\* end = new Date(now.getTime() + windowMinutes * 60 * 1000)
WindowEnd(start, minutes) == start + minutes * 60 * 1000

\* const L = Math.min(A.length, B.length)
AlignedLength_OffByOne(A, B) == Min(Len(A), Len(B)) - 1
AlignedLength(A, B) == Min(Len(A), Len(B))

\* if (d < minD)
IsCloser(d, minD) == minD.inf \/ d < minD.v

\* The k loop of one pair: minD, minTime and minIdx after indices k..L-1.
RECURSIVE ScanPair_OneBased(_, _, _, _, _)
ScanPair_OneBased(A, B, k, L, acc) ==
  IF k >= L THEN acc
  ELSE LET d == Distance(A[k + 1].eci, B[k + 1].eci)
       IN ScanPair_OneBased(A, B, k + 1, L,
            IF IsCloser(d, acc.minD)
            THEN [minD |-> Fin(d), minTime |-> A[k + 1].t, minIdx |-> k + 1]
            ELSE acc)
RECURSIVE ScanPair(_, _, _, _, _)
ScanPair(A, B, k, L, acc) ==
  IF k >= L THEN acc
  ELSE LET d == Distance(A[k + 1].eci, B[k + 1].eci)
       IN ScanPair(A, B, k + 1, L,
            IF IsCloser(d, acc.minD)
            THEN [minD |-> Fin(d), minTime |-> A[k + 1].t, minIdx |-> k]
            ELSE acc)

\* What the k loop leaves in minD, minTime and minIdx for the trajectories A, B.
PairScan(A, B) ==
  ScanPair(A, B, 0, AlignedLength(A, B), [minD |-> Infinity, minTime |-> NullTime, minIdx |-> -1])

\* if (minD < thresholdKm && minTime)
EmitsConjunction_Inclusive(minD, minTime, thr) == ~minD.inf /\ minD.v <= thr /\ minTime # NullTime
EmitsConjunction(minD, minTime, thr) == ~minD.inf /\ minD.v < thr /\ minTime # NullTime

\* sats[i].name || `SAT${i}`
SatLabel == <<"SAT0", "SAT1", "SAT2", "SAT3">>
NameOr(name, idx) == IF name = "" THEN SatLabel[idx + 1] ELSE name

\* The pair the two nested for loops visit after (a, b) among n satellites.
NextPair_SkipRow(a, b, n) == <<a + 1, a + 2>>
NextPair_FromZero(a, b, n) == IF b + 1 < n THEN <<a, b + 1>> ELSE <<a + 1, 0>>
NextPair(a, b, n) == IF b + 1 < n THEN <<a, b + 1>> ELSE <<a + 1, a + 2>>

\* floor(window / step) + 1 for a positive step and a non-negative window.
NominalSamples(minutes, step) ==
  IF step > 0 /\ minutes >= 0 THEN (minutes * 60) \div step + 1 ELSE 0

(***************************************************************************)
(* Init: the dashboard with a satellite list loaded and the three inputs   *)
(* set, before Run Analysis.                                               *)
(***************************************************************************)
\* No analysis run has started.
RunIdle ==
  /\ tracks = <<>>
  /\ conjunctions = <<>>
  /\ alerts = <<>>
  /\ running = FALSE
  /\ toast = ""
  /\ pc = "idle"
  /\ now = 0
  /\ end = 0
  /\ t = 0
  /\ samples = <<>>
  /\ satSamples = <<>>
  /\ si = 0
  /\ ti = 0
  /\ i = 0
  /\ j = 0
  /\ conjCandidates = <<>>
  /\ propLog = <<>>
  /\ pairLog = <<>>

\* No classification is under way.
Pending == [status |-> "pending", orbitType |-> "", altKm |-> 0]
ClassIdle ==
  /\ satrec = [no |-> 0, propagate |-> [kind |-> "nopos", alt |-> 0]]
  /\ dashClass = Pending
  /\ hookClass = Pending

\* No text is being parsed.
ParseIdle ==
  /\ tleText = <<>>
  /\ parsePc = "idle"
  /\ sets = <<>>

\* No pair is being evaluated on its own.
NoOutput == [pushed |-> FALSE]
DetIdle ==
  /\ trajA = <<>>
  /\ trajB = <<>>
  /\ detThr = 0
  /\ detPc = "idle"
  /\ detOut = NoOutput

\* The dashboard as a whole is not followed.
NoRun == [kind |-> "none", sats |-> <<>>]
AsyncIdle ==
  /\ loading = FALSE
  /\ autoLoaded = FALSE
  /\ effectDue = FALSE
  /\ fetches = <<>>
  /\ timers = <<>>
  /\ fetchCount = 0
  /\ lastRun = NoRun
  /\ userActed = FALSE

\* No risk function is applied.
RiskIdle ==
  /\ riskKind = "none"
  /\ riskIn = <<>>
  /\ riskDone = {}
  /\ meteors = <<>>
  /\ impactRisks = <<>>
  /\ hookMeteor = [count |-> 0, approaching |-> 0, potentiallyHazardous |-> 0]
  /\ probeOut = <<>>
  /\ debrisRisk = <<>>
  /\ collisionRisks = <<>>

\* CollisionAnalyzer as constructed, with empty lists.
NoAnalysis ==
  [totalObjects |-> 0, satelliteSatelliteRisks |-> 0, satelliteDebrisRisks |-> 0,
   meteorSatelliteRisks |-> 0, meteorEarthRisks |-> 0, debrisEarthReentryRisks |-> 0,
   overallRiskScore |-> 0, criticalAlerts |-> <<>>]
AnalyzerIdle ==
  /\ analyzerProps = <<>>
  /\ analysis = NoAnalysis
  /\ analysed = FALSE

\* useRealTimeSpaceData as constructed.
HookIdle ==
  /\ hookMounted = FALSE
  /\ hookLoading = FALSE
  /\ hookStarted = 0
  /\ hookInFlight = 0
  /\ hookDraw = [satelliteCount |-> 0, debrisCount |-> 0, meteorCount |-> 0,
                 random |-> [q |-> 0, u |-> 0]]
  /\ hookData = [collisionRisks |-> [total |-> 0, critical |-> 0, high |-> 0, moderate |-> 0],
                 conjunctions |-> [total |-> 0, upcoming |-> 0, withinDay |-> 0]]

AuxIdle == DetIdle /\ AsyncIdle /\ RiskIdle /\ AnalyzerIdle /\ HookIdle

Init ==
  /\ sats \in SatLists
  /\ thresholdKm \in ThresholdChoices
  /\ windowMinutes \in WindowChoices
  /\ sampleSec \in SampleChoices
  /\ Len(sats) * NominalSamples(windowMinutes, sampleSec) <= MaxEvals
  /\ RunIdle
  /\ ClassIdle
  /\ ParseIdle
  /\ AuxIdle

(***************************************************************************)
(* computeTracksAndConjunctions                                            *)
(***************************************************************************)
\* Entry: the empty-list check, setRunning(true), now and end.
RunAnalysis ==
  /\ pc = "idle"
  /\ IF Len(sats) = 0
     THEN /\ toast' = "No Satellites"
          /\ pc' = "done"
          /\ UNCHANGED <<running, now, end, t>>
     ELSE /\ running' = TRUE
          /\ \E start \in StartTimes :
               /\ now' = start
               /\ end' = WindowEnd(start, windowMinutes)
               /\ t' = start
          /\ pc' = "sampling"
          /\ UNCHANGED toast
  /\ UNCHANGED <<sats, tracks, conjunctions, alerts, thresholdKm, windowMinutes, sampleSec>>
  /\ UNCHANGED <<classVars, parseVars, auxVars>>
  /\ UNCHANGED <<samples, satSamples, si, ti, i, j, conjCandidates, propLog, pairLog>>

\* One iteration of the sample-time loop.
GenSample ==
  /\ pc = "sampling"
  /\ SampleLoopContinues(t, end)
  /\ Len(samples) < MaxSamples
  /\ samples' = Append(samples, t)
  /\ t' = NextSampleTime(t, sampleSec)
  /\ UNCHANGED <<dashVars, classVars, parseVars, auxVars>>
  /\ UNCHANGED <<pc, now, end, satSamples, si, ti, i, j, conjCandidates, propLog, pairLog>>

\* The sample-time loop ends; satSamples = sats.map(...) with empty positions.
SamplingDone ==
  /\ pc = "sampling"
  /\ ~SampleLoopContinues(t, end)
  /\ satSamples' = [k \in 1..Len(sats) |-> [name |-> sats[k].name, positions |-> <<>>]]
  /\ propLog' = [k \in 1..Len(sats) |-> <<>>]
  /\ si' = 0
  /\ ti' = 0
  /\ pc' = "propagating"
  /\ UNCHANGED <<dashVars, classVars, parseVars, auxVars>>
  /\ UNCHANGED <<now, end, t, samples, i, j, conjCandidates, pairLog>>

\* One iteration of the inner loop: propagate satellite si at samples[ti].
PropagateSample ==
  /\ pc = "propagating"
  /\ si < Len(satSamples)
  /\ ti < Len(samples)
  /\ \E res \in PropagateResults :
       LET when == samples[ti + 1]
           eci == propagateEci(res)
       IN /\ satSamples' = [satSamples EXCEPT ![si + 1].positions = PushIfPropagated(@, when, eci)]
          /\ propLog' = [propLog EXCEPT ![si + 1] = Append(@, eci # Null)]
  /\ IF ti + 1 < Len(samples)
     THEN /\ ti' = ti + 1
          /\ si' = si
     ELSE /\ ti' = 0
          /\ si' = si + 1
  /\ UNCHANGED <<dashVars, classVars, parseVars, auxVars>>
  /\ UNCHANGED <<pc, now, end, t, samples, i, j, conjCandidates, pairLog>>

\* Both loops are over (at once when there is no sample): the pair loops start.
PropagationDone ==
  /\ pc = "propagating"
  /\ (si >= Len(satSamples) \/ Len(samples) = 0)
  /\ conjCandidates' = <<>>
  /\ pairLog' = <<>>
  /\ i' = 0
  /\ j' = 1
  /\ pc' = "detecting"
  /\ UNCHANGED <<dashVars, classVars, parseVars, auxVars>>
  /\ UNCHANGED <<now, end, t, samples, satSamples, si, ti, propLog>>

\* One iteration of the j loop: the k loop of the pair (i, j) and its push.
DetectPair ==
  /\ pc = "detecting"
  /\ j < Len(satSamples)
  /\ LET A == satSamples[i + 1].positions
         B == satSamples[j + 1].positions
         L == AlignedLength(A, B)
         r == ScanPair(A, B, 0, L, [minD |-> Infinity, minTime |-> NullTime, minIdx |-> -1])
         emit == EmitsConjunction(r.minD, r.minTime, thresholdKm)
     IN /\ conjCandidates' =
             IF emit
             THEN Append(conjCandidates,
                    [satA |-> NameOr(sats[i + 1].name, i), satB |-> NameOr(sats[j + 1].name, j),
                     miss_km |-> r.minD.v, tca |-> r.minTime, sampleIndex |-> r.minIdx])
             ELSE conjCandidates
        /\ pairLog' = Append(pairLog,
             [i |-> i, j |-> j, minD |-> r.minD, minIdx |-> r.minIdx, pushed |-> emit,
              at |-> Len(conjCandidates')])
  /\ i' = NextPair(i, j, Len(satSamples))[1]
  /\ j' = NextPair(i, j, Len(satSamples))[2]
  /\ UNCHANGED <<dashVars, classVars, parseVars, auxVars>>
  /\ UNCHANGED <<pc, now, end, t, samples, satSamples, si, ti, propLog>>

\* tracksForGlobe: one track per satellite, one point per stored position.  The
\* geodetic point (lat, lng, altKm) is a function of p.eci and p.t; it is kept
\* as the pair it is computed from.
TracksForGlobe ==
  [k \in 1..Len(satSamples) |->
     [name |-> satSamples[k].name,
      points |-> [p \in 1..Len(satSamples[k].positions) |->
                    [t |-> satSamples[k].positions[p].t, eci |-> satSamples[k].positions[p].eci]]]]

\* The pair loops are over: setTracks, setConjunctions, setAlerts, the toast and
\* setRunning(false).
Publish ==
  /\ pc = "detecting"
  /\ j >= Len(satSamples)
  /\ tracks' = TracksForGlobe
  /\ conjunctions' = conjCandidates
  /\ IF Len(conjCandidates) > 0
     THEN /\ alerts' = [k \in 1..Len(conjCandidates) |->
                          [kind |-> "close", satA |-> conjCandidates[k].satA,
                           satB |-> conjCandidates[k].satB, tca |-> conjCandidates[k].tca]]
          /\ toast' = "Conjunction Alert!"
     ELSE /\ alerts' = <<[kind |-> "none", satA |-> "", satB |-> "", tca |-> NullTime]>>
          /\ toast' = "Analysis Complete"
  /\ running' = FALSE
  /\ pc' = "done"
  /\ UNCHANGED <<sats, thresholdKm, windowMinutes, sampleSec>>
  /\ UNCHANGED <<classVars, parseVars, auxVars>>
  /\ UNCHANGED <<now, end, t, samples, satSamples, si, ti, i, j, conjCandidates, propLog, pairLog>>

Next ==
  \/ RunAnalysis
  \/ GenSample
  \/ SamplingDone
  \/ PropagateSample
  \/ PropagationDone
  \/ DetectPair
  \/ Publish

Spec == Init /\ [][Next]_vars

(***************************************************************************)
(* classifyOrbitType                                                       *)
(***************************************************************************)
Returned(type, alt) == [status |-> "returned", orbitType |-> type, altKm |-> alt]
\* The exception leaves the function: the caller's catch returns null and the
\* satellite is filtered out of the list.
Threw == [status |-> "threw", orbitType |-> "", altKm |-> 0]

\* period < m, where period = 2 * Math.PI / meanMotion (Infinity when the mean
\* motion is 0).
PeriodLessThan(no, m) ==
  IF no > 0 THEN TwoPiMicro < m * no ELSE no < 0

\* if (altKm < 2000) LEO else if (altKm >= 2000 && altKm < 35000) MEO else GEO
AltitudeBand(altKm) ==
  IF altKm < LeoMaxAltKm THEN "LEO"
  ELSE IF altKm >= LeoMaxAltKm /\ altKm < MeoMaxAltKm THEN "MEO"
  ELSE "GEO"

\* if (period < 200) LEO else if (period < 1200) MEO else GEO
PeriodBand(no) ==
  IF PeriodLessThan(no, LeoMaxPeriodMin) THEN "LEO"
  ELSE IF PeriodLessThan(no, MeoMaxPeriodMin) THEN "MEO"
  ELSE "GEO"

\* altKm the dashboard reports on its fallback path.
FallbackAltKm(type) ==
  CASE type = "LEO" -> 500
    [] type = "MEO" -> 20000
    [] type = "GEO" -> GeoAltKm

\* The dashboard's classifyOrbitType: no try/catch; the fallback follows the
\* position test.
DashboardClassify(rec) ==
  CASE rec.propagate.kind = "throw" -> Threw
    [] rec.propagate.kind = "pos" -> Returned(AltitudeBand(rec.propagate.alt), rec.propagate.alt)
    [] rec.propagate.kind = "nopos" -> Returned(PeriodBand(rec.no), FallbackAltKm(PeriodBand(rec.no)))

\* The hook's classifyOrbitType: the fallback is the catch block; a result
\* without a position falls through to the final return 'LEO'.
HookClassify(rec) ==
  CASE rec.propagate.kind = "throw" -> Returned(PeriodBand(rec.no), 0)
    [] rec.propagate.kind = "pos" -> Returned(AltitudeBand(rec.propagate.alt), 0)
    [] rec.propagate.kind = "nopos" -> Returned("LEO", 0)

InitClassify ==
  /\ satrec \in [no : MeanMotions, propagate : ClassOutcomes]
  /\ dashClass = Pending
  /\ hookClass = Pending
  /\ sats = <<>>
  /\ thresholdKm = 5
  /\ windowMinutes = 60
  /\ sampleSec = 30
  /\ RunIdle
  /\ ParseIdle
  /\ AuxIdle

ClassifyDashboard ==
  /\ dashClass = Pending
  /\ dashClass' = DashboardClassify(satrec)
  /\ UNCHANGED <<satrec, hookClass, dashVars, runVars, parseVars, auxVars>>

ClassifyHook ==
  /\ hookClass = Pending
  /\ hookClass' = HookClassify(satrec)
  /\ UNCHANGED <<satrec, dashClass, dashVars, runVars, parseVars, auxVars>>

NextClassify == ClassifyDashboard \/ ClassifyHook

SpecClassify == InitClassify /\ [][NextClassify]_vars

(***************************************************************************)
(* parseTLEs                                                               *)
(***************************************************************************)
IsBlank(c) == c = " "

\* l.trim()
RECURSIVE TrimLeft(_)
TrimLeft(l) == IF l # <<>> /\ IsBlank(Head(l)) THEN TrimLeft(Tail(l)) ELSE l
RECURSIVE TrimRight(_)
TrimRight(l) ==
  IF l # <<>> /\ IsBlank(l[Len(l)]) THEN TrimRight(SubSeq(l, 1, Len(l) - 1)) ELSE l
Trim(l) == TrimRight(TrimLeft(l))

\* text.split(/\r?\n/).map(l => l.trim()).filter(Boolean)
NonEmpty(l) == l # <<>>
CleanLines(text) == SelectSeq([p \in 1..Len(text) |-> Trim(text[p])], NonEmpty)

\* l.startsWith('1 ') and l.startsWith('2 ')
StartsWith(l, digit) == Len(l) >= 2 /\ l[1] = digit /\ l[2] = " "

UnknownName ==
  <<"U", "n", "k", "n", "o", "w", "n", " ", "S", "a", "t", "e", "l", "l", "i", "t", "e">>

\* The bare 2-line layout at offset k (0-based, as in the code).
BareGroupAt(lines, k) ==
  /\ (StartsWith(lines[k + 1], "1") \/ StartsWith(lines[k + 1], "2"))
  /\ k + 1 < Len(lines)
  /\ StartsWith(lines[k + 1], "1")
  /\ StartsWith(lines[k + 2], "2")
BareRecord(lines, k) == [name |-> UnknownName, l1 |-> lines[k + 1], l2 |-> lines[k + 2]]

\* The 3-line layout at offset k.
NamedGroupAt_OffByOne(lines, k) ==
  /\ k + 3 < Len(lines)
  /\ StartsWith(lines[k + 2], "1")
  /\ StartsWith(lines[k + 3], "2")
NamedGroupAt(lines, k) ==
  /\ k + 2 < Len(lines)
  /\ StartsWith(lines[k + 2], "1")
  /\ StartsWith(lines[k + 3], "2")
NamedRecord_WrongLine(lines, k) == [name |-> lines[k + 1], l1 |-> lines[k + 2], l2 |-> lines[k + 2]]
NamedRecord(lines, k) == [name |-> lines[k + 1], l1 |-> lines[k + 2], l2 |-> lines[k + 3]]

\* for (let i = 0; i < lines.length;) { ... }
RECURSIVE ParseFrom(_, _, _)
ParseFrom(lines, k, acc) ==
  IF k >= Len(lines) THEN acc
  ELSE IF BareGroupAt(lines, k) THEN ParseFrom(lines, k + 2, Append(acc, BareRecord(lines, k)))
  ELSE IF NamedGroupAt(lines, k) THEN ParseFrom(lines, k + 3, Append(acc, NamedRecord(lines, k)))
  ELSE ParseFrom(lines, k + 1, acc)

parseTLEs(text) == ParseFrom(CleanLines(text), 0, <<>>)

InitParse ==
  /\ \E n \in 0..MaxLines : \E ks \in [1..n -> LineKinds] :
       tleText = [p \in 1..n |-> RawLine(ks[p], p)]
  /\ parsePc = "idle"
  /\ sets = <<>>
  /\ sats = <<>>
  /\ thresholdKm = 5
  /\ windowMinutes = 60
  /\ sampleSec = 30
  /\ RunIdle
  /\ ClassIdle
  /\ AuxIdle

\* const sets = parseTLEs(tleText)
CallParseTLEs ==
  /\ parsePc = "idle"
  /\ sets' = parseTLEs(tleText)
  /\ parsePc' = "parsed"
  /\ UNCHANGED <<tleText, dashVars, runVars, classVars, auxVars>>

NextParse == CallParseTLEs

SpecParse == InitParse /\ [][NextParse]_vars

(***************************************************************************)
(* Properties of the analysis run (checked under Spec)                     *)
(***************************************************************************)
\* The run went past the empty-list check and published.
Published == pc = "done" /\ toast # "No Satellites"
\* The sample-time loop is over.
SamplingOver == pc \in {"propagating", "detecting"} \/ Published

\* The distances between the k-th stored positions of satellites a and b
\* (0-based), over every index both sequences have.
AlignedDistances(a, b) ==
  LET A == satSamples[a + 1].positions
      B == satSamples[b + 1].positions
  IN {Distance(A[k].eci, B[k].eci) : k \in 1..Min(Len(A), Len(B))}

IsMinimumOf(m, D) == m \in D /\ \A d \in D : m <= d

\* C1: the miss_km of every emitted Conjunction is the minimum, over the
\* indices both position sequences have, of the distance between the k-th
\* stored positions of its two satellites; what is published is what was emitted.
C1_MissIsMinimum ==
  /\ \A n \in 1..Len(pairLog) :
       pairLog[n].pushed =>
         IsMinimumOf(conjCandidates[pairLog[n].at].miss_km,
                     AlignedDistances(pairLog[n].i, pairLog[n].j))
  /\ Published => conjunctions = conjCandidates

\* A published conjunction whose minimum is 3 km, reached at the last of three
\* aligned samples only.
C1_Witness ==
  /\ Published
  /\ \E n \in 1..Len(pairLog) :
       /\ pairLog[n].pushed
       /\ pairLog[n].minIdx = 2
       /\ conjunctions[pairLog[n].at].miss_km = 3
       /\ Cardinality(AlignedDistances(pairLog[n].i, pairLog[n].j)) >= 2

\* C2: a pair emits a Conjunction exactly when it has an aligned sample and its
\* minimum aligned distance is strictly below thresholdKm.
C2_EmitIffBelowThreshold ==
  \A n \in 1..Len(pairLog) :
    LET D == AlignedDistances(pairLog[n].i, pairLog[n].j)
    IN pairLog[n].pushed <=> (D # {} /\ \E m \in D : IsMinimumOf(m, D) /\ m < thresholdKm)

\* One run in which a pair whose minimum is exactly thresholdKm emits nothing
\* and a pair below thresholdKm emits.
C2_Witness ==
  /\ Published
  /\ thresholdKm > 0
  /\ \E n \in 1..Len(pairLog) :
       ~pairLog[n].pushed /\ ~pairLog[n].minD.inf /\ pairLog[n].minD.v = thresholdKm
  /\ \E n \in 1..Len(pairLog) : pairLog[n].pushed

NonPositiveConfig == sampleSec <= 0 \/ windowMinutes <= 0 \/ thresholdKm <= 0

\* C3: with a non-positive step, window or threshold the run is rejected before
\* any sample time is generated and before any satellite is propagated.
C3_NonPositiveConfigRejected ==
  NonPositiveConfig =>
    /\ samples = <<>>
    /\ \A s \in 1..Len(propLog) : propLog[s] = <<>>
    /\ tracks = <<>>

\* The sample times at which the log says propagation succeeded.
RECURSIVE KeptTimes(_, _, _)
KeptTimes(log, smp, k) ==
  IF k > Len(log) THEN <<>>
  ELSE (IF log[k] THEN <<smp[k]>> ELSE <<>>) \o KeptTimes(log, smp, k + 1)

Failures(log) == Cardinality({k \in 1..Len(log) : ~log[k]})

TimesOf(points) == [p \in 1..Len(points) |-> points[p].t]

\* C6: a failed propagation removes that sample alone: every satellite is
\* propagated at every sample time, its positions are the samples that
\* succeeded, in order, and the run publishes one such track per satellite,
\* the conjunctions, and clears running.
C6_FailureDropsOnlyThatSample ==
  /\ (pc = "detecting" \/ Published) =>
       /\ Len(satSamples) = Len(sats)
       /\ \A s \in 1..Len(sats) :
            /\ Len(propLog[s]) = Len(samples)
            /\ TimesOf(satSamples[s].positions) = KeptTimes(propLog[s], samples, 1)
  /\ Published =>
       /\ Len(tracks) = Len(sats)
       /\ \A s \in 1..Len(sats) :
            /\ tracks[s].name = sats[s].name
            /\ TimesOf(tracks[s].points) = KeptTimes(propLog[s], samples, 1)
       /\ conjunctions = conjCandidates
       /\ ~running

\* A published run of three samples in which one satellite failed at the middle
\* sample only and another satellite at none.
C6_Witness ==
  /\ Published
  /\ Len(samples) = 3
  /\ \E s \in 1..Len(sats) : propLog[s] = <<TRUE, FALSE, TRUE>> /\ Len(tracks[s].points) = 2
  /\ \E s \in 1..Len(sats) : propLog[s] = <<TRUE, TRUE, TRUE>> /\ Len(tracks[s].points) = 3

StepMillis == sampleSec * 1000

\* C7 as stated: for a positive window, step and threshold the samples are start,
\* start+step, ... up to and including the first timestamp >= start + window,
\* so the last one is not earlier than the end of the window.
C7_LastSampleReachesWindowEnd ==
  (SamplingOver /\ ~NonPositiveConfig) =>
    /\ samples # <<>>
    /\ \A k \in 1..Len(samples) : samples[k] = now + (k - 1) * StepMillis
    /\ samples[Len(samples)] >= end
    /\ \A k \in 1..(Len(samples) - 1) : samples[k] < end

\* C7 amended: the samples are start, start+step, ..., each not later than
\* start + window, and the loop stops at the first timestamp later than
\* start + window, which is not generated.
C7_SamplesStopBeforeWindowEnd ==
  /\ (pc = "sampling" \/ SamplingOver) => end = now + windowMinutes * 60 * 1000
  /\ \A k \in 1..Len(samples) :
       /\ samples[k] = now + (k - 1) * StepMillis
       /\ samples[k] <= end
  /\ SamplingOver => now + Len(samples) * StepMillis > end

\* A window of 1 minute sampled every 45 s: two samples, the last one 15 s
\* before the end of the window.
C7_Witness ==
  /\ SamplingOver
  /\ windowMinutes = 1
  /\ sampleSec = 45
  /\ Len(samples) = 2
  /\ samples[2] = end - 15000

IsAscending(times) == \A k \in 1..(Len(times) - 1) : times[k] < times[k + 1]

\* C8: for a positive window and step every published trajectory is strictly
\* ascending in time and has floor(window/step) + 1 entries less the number of
\* samples that failed to propagate for it.
C8_TrajectoryLength ==
  (Published /\ windowMinutes > 0 /\ sampleSec > 0) =>
    \A s \in 1..Len(tracks) :
      /\ IsAscending(TimesOf(tracks[s].points))
      /\ Len(tracks[s].points) = (windowMinutes * 60) \div sampleSec + 1 - Failures(propLog[s])

\* A 2-minute window sampled every 45 s (not a multiple): a full trajectory of
\* 3 entries and one shortened to 1 entry by two failures.
C8_Witness ==
  /\ Published
  /\ windowMinutes = 2
  /\ sampleSec = 45
  /\ \E s \in 1..Len(tracks) : Failures(propLog[s]) = 0 /\ Len(tracks[s].points) = 3
  /\ \E s \in 1..Len(tracks) : Failures(propLog[s]) = 2 /\ Len(tracks[s].points) = 1

(***************************************************************************)
(* Properties of classifyOrbitType (checked under SpecClassify)            *)
(***************************************************************************)
\* The altitude bands as documented: LEO below 2000 km, MEO from 2000 km up to
\* 35786 km, GEO from 35786 km.
DocumentedAltitudeBand(altKm) ==
  IF altKm < LeoMaxAltKm THEN "LEO" ELSE IF altKm < GeoAltKm THEN "MEO" ELSE "GEO"

\* C4: when propagation succeeds with altitude a, the class returned is LEO iff
\* a < 2000, MEO iff 2000 <= a < 35786, and GEO otherwise.
C4_AltitudeBands ==
  satrec.propagate.kind = "pos" =>
    /\ dashClass # Pending =>
         dashClass.status = "returned" /\ dashClass.orbitType = DocumentedAltitudeBand(satrec.propagate.alt)
    /\ hookClass # Pending =>
         hookClass.status = "returned" /\ hookClass.orbitType = DocumentedAltitudeBand(satrec.propagate.alt)

\* C5: whenever propagation fails, the object is kept and its class is the one
\* of its period 2*pi/meanMotion: LEO below 200 minutes, MEO from 200 up to
\* 1200 minutes, GEO from 1200 minutes.
C5_FallbackByPeriod ==
  satrec.propagate.kind \in {"nopos", "throw"} =>
    /\ dashClass # Pending =>
         dashClass.status = "returned" /\ dashClass.orbitType = PeriodBand(satrec.no)
    /\ hookClass # Pending =>
         hookClass.status = "returned" /\ hookClass.orbitType = PeriodBand(satrec.no)

\* C28: the dashboard's and the hook's classifyOrbitType return the same orbit
\* type for every propagation outcome (a position with its altitude, no
\* position, an exception) and every mean motion.
C28_SameOrbitType ==
  (dashClass # Pending /\ hookClass # Pending) =>
    /\ dashClass.status = "returned"
    /\ hookClass.status = "returned"
    /\ dashClass.orbitType = hookClass.orbitType

(***************************************************************************)
(* Properties of parseTLEs (checked under SpecParse)                       *)
(***************************************************************************)
\* The positions p at which a line starting "1 " is followed by one starting "2 ".
ElementPairs(lines) ==
  {p \in 1..(Len(lines) - 1) : StartsWith(lines[p], "1") /\ StartsWith(lines[p + 1], "2")}

\* C9: every record is complete: l1 starts with "1 ", l2 starts with "2 " and
\* is the line right after l1, a named record's name is the line right before
\* l1; no two records share a line pair and none exists without one.
C9_RecordsComplete ==
  parsePc = "parsed" =>
    LET lines == CleanLines(tleText)
    IN /\ \A r \in 1..Len(sets) :
            /\ StartsWith(sets[r].l1, "1")
            /\ StartsWith(sets[r].l2, "2")
            /\ sets[r].name # <<>>
            /\ \E p \in ElementPairs(lines) :
                 /\ lines[p] = sets[r].l1
                 /\ lines[p + 1] = sets[r].l2
                 /\ sets[r].name # UnknownName => (p > 1 /\ lines[p - 1] = sets[r].name)
       /\ \A q, r \in 1..Len(sets) : q # r => sets[q].l1 # sets[r].l1
       /\ Len(sets) <= Cardinality(ElementPairs(lines))

\* A text that gives a bare record, then a named record, and has a line that
\* fits neither layout.
C9_Witness ==
  /\ parsePc = "parsed"
  /\ Len(sets) = 2
  /\ sets[1].name = UnknownName
  /\ sets[2].name # UnknownName
  /\ Len(CleanLines(tleText)) > 5

\* The lines are n groups (any line, a line starting "1 ", a line starting
\* "2 ") followed by lines among which no line starting "1 " is followed by
\* one starting "2 ".
GroupsThenMalformed(lines, n) ==
  /\ 3 * n <= Len(lines)
  /\ \A g \in 0..(n - 1) :
       StartsWith(lines[3 * g + 2], "1") /\ StartsWith(lines[3 * g + 3], "2")
  /\ \A p \in ElementPairs(lines) : p < 3 * n

\* C10: a text of N well-formed 3-line groups, followed or not by malformed
\* lines, parses to exactly the N records of the groups, in input order.
C10_GroupsRoundTrip ==
  parsePc = "parsed" =>
    LET lines == CleanLines(tleText)
    IN \A n \in 0..MaxLines :
         GroupsThenMalformed(lines, n) =>
           sets = [g \in 1..n |->
                     [name |-> lines[3 * g - 2], l1 |-> lines[3 * g - 1], l2 |-> lines[3 * g]]]

\* Two well-formed groups followed by a malformed line.
C10_Witness ==
  /\ parsePc = "parsed"
  /\ Len(CleanLines(tleText)) = 7
  /\ GroupsThenMalformed(CleanLines(tleText), 2)
  /\ Len(sets) = 2

(***************************************************************************)
(* Claims about the pair loops                                             *)
(***************************************************************************)
\* The unordered pairs of distinct indices among n satellites.
PairsOf(n) == {p \in (0..(n - 1)) \X (0..(n - 1)) : p[1] < p[2]}

\* The pairs the pair loops have visited so far.
LoggedPairs == {<<pairLog[k].i, pairLog[k].j>> : k \in 1..Len(pairLog)}

\* C11: a run over N satellites evaluates every unordered pair of distinct
\* satellites exactly once and never a satellite against itself: every
\* evaluated pair has i < j < N, no pair is evaluated twice, each evaluation
\* pushes at most one conjunction, and a published run has evaluated all
\* N*(N-1)/2 pairs and holds at most that many conjunctions.
C11_EachPairOnce ==
  LET n == Len(sats)
  IN /\ \A k \in 1..Len(pairLog) : pairLog[k].i # pairLog[k].j
     /\ LoggedPairs \subseteq PairsOf(n)
     /\ Cardinality(LoggedPairs) = Len(pairLog)
     /\ \A k \in 1..Len(pairLog) :
          pairLog[k].at = (IF k = 1 THEN 0 ELSE pairLog[k - 1].at)
                          + (IF pairLog[k].pushed THEN 1 ELSE 0)
     /\ Published =>
          /\ LoggedPairs = PairsOf(n)
          /\ Len(pairLog) = (n * (n - 1)) \div 2
          /\ Len(conjunctions) = Cardinality({k \in 1..Len(pairLog) : pairLog[k].pushed})
          /\ Len(conjunctions) <= (n * (n - 1)) \div 2

\* Three satellites, all three pairs evaluated and each one published.
C11_Witness ==
  /\ Published
  /\ Len(sats) = 3
  /\ Len(pairLog) = 3
  /\ Len(conjunctions) = 3

\* The pair loops start on complete trajectories: no pair is evaluated yet.
TrajectoriesComplete == pc = "detecting" /\ pairLog = <<>>

\* C12: the miss distance of two trajectories is the same in either order of
\* the two (and so is the index it is found at and the decision to emit), and
\* it is not greater than the distance at any aligned sample index.
C12_SymmetricLowerBound ==
  TrajectoriesComplete =>
    \A a \in 1..Len(satSamples) : \A b \in (a + 1)..Len(satSamples) :
      LET A == satSamples[a].positions
          B == satSamples[b].positions
          ab == PairScan(A, B)
          ba == PairScan(B, A)
      IN /\ ab.minD = ba.minD
         /\ ab.minIdx = ba.minIdx
         /\ EmitsConjunction(ab.minD, ab.minTime, thresholdKm)
              <=> EmitsConjunction(ba.minD, ba.minTime, thresholdKm)
         /\ \A k \in 1..AlignedLength(A, B) :
              /\ ~ab.minD.inf
              /\ ab.minD.v <= Distance(A[k].eci, B[k].eci)
              /\ ab.minD.v <= Distance(B[k].eci, A[k].eci)

\* Two trajectories of different lengths, apart at every aligned index and
\* closest after the first index.
C12_Witness ==
  /\ TrajectoriesComplete
  /\ \E a, b \in 1..Len(satSamples) :
       LET A == satSamples[a].positions
           B == satSamples[b].positions
       IN /\ Len(A) # Len(B)
          /\ PairScan(A, B).minIdx > 0
          /\ PairScan(A, B).minD.v > 0

\* Every satellite has been propagated at every sample time.
AllPropagated ==
  /\ Len(satSamples) = Len(sats)
  /\ \A k \in 1..Len(sats) : Len(propLog[k]) = Len(samples)

\* The Run Analysis button: disabled={running || sats.length === 0}.
RunButtonEnabled == ~(running \/ Len(sats) = 0)

\* C15: a run samples, then propagates and detects, then publishes: while a
\* stage is under way the published tracks, conjunctions and alerts are still
\* the ones from before the run (empty here), each stage starts on the finished
\* result of the one before, what is published is the result for all
\* satellites and all pairs, and after a completed run the running flag is
\* down so that Run Analysis can be triggered again.
C15_StagesThenPublish ==
  /\ pc \in {"idle", "sampling", "propagating", "detecting"} =>
       /\ tracks = <<>>
       /\ conjunctions = <<>>
       /\ alerts = <<>>
  /\ pc \in {"idle", "sampling"} => satSamples = <<>> /\ pairLog = <<>>
  /\ pc = "propagating" => ~SampleLoopContinues(t, end) /\ pairLog = <<>>
  /\ pc = "detecting" => AllPropagated
  /\ Published =>
       /\ AllPropagated
       /\ LoggedPairs = PairsOf(Len(sats))
       /\ tracks = TracksForGlobe
       /\ Len(tracks) = Len(sats)
       /\ conjunctions = conjCandidates
       /\ alerts # <<>>
       /\ RunButtonEnabled
  /\ pc = "done" => ~running

\* A completed run over three satellites with a failed propagation and a
\* published conjunction.
C15_Witness ==
  /\ Published
  /\ Len(sats) = 3
  /\ Len(tracks) = 3
  /\ Len(conjunctions) > 0
  /\ \E k \in 1..Len(propLog) : \E m \in 1..Len(propLog[k]) : ~propLog[k][m]
  /\ RunButtonEnabled

\* C22: in every distance computation of the pair loops the two positions at
\* index k carry the same timestamp, also when samples of one satellite failed
\* to propagate and were omitted; so the tca of every conjunction is the time
\* of both positions its miss distance was computed from.
C22_AlignedTimestamps ==
  TrajectoriesComplete =>
    \A a \in 1..Len(satSamples) : \A b \in (a + 1)..Len(satSamples) :
      LET A == satSamples[a].positions
          B == satSamples[b].positions
      IN /\ \A k \in 1..AlignedLength(A, B) : A[k].t = B[k].t
         /\ EmitsConjunction(PairScan(A, B).minD, PairScan(A, B).minTime, thresholdKm) =>
              B[PairScan(A, B).minIdx + 1].t = PairScan(A, B).minTime

\* C23: the sample-time loop terminates for every value of sampleSec and
\* windowMinutes, zero and negative ones included: whenever the loop condition
\* holds, the increment moves t forward, towards the end of the window (the
\* step is the same in every iteration, so a t that does not move forward
\* never passes end and the run never reaches its end).
C23_SampleLoopAdvances ==
  (pc = "sampling" /\ SampleLoopContinues(t, end)) => NextSampleTime(t, sampleSec) > t

\* visibleTracks.find(t => t.name === name) with every orbit type visible: the
\* index of the first track of that name, 0 when there is none.
FindTrack(name) ==
  IF \E k \in 1..Len(tracks) : tracks[k].name = name
  THEN CHOOSE k \in 1..Len(tracks) :
         tracks[k].name = name /\ \A m \in 1..(k - 1) : tracks[m].name # name
  ELSE 0

\* C26: the two objects of every published conjunction are told apart by
\* their recorded identities (satA differs from satB), and looking satA and
\* satB up among the tracks gives the tracks of the two satellites whose
\* positions produced miss_km, also for satellites that got the placeholder
\* name of a bare 2-line group.
C26_ConjunctionIdentities ==
  Published =>
    \A n \in 1..Len(pairLog) :
      pairLog[n].pushed =>
        LET c == conjunctions[pairLog[n].at]
        IN /\ c.satA # c.satB
           /\ FindTrack(c.satA) = pairLog[n].i + 1
           /\ FindTrack(c.satB) = pairLog[n].j + 1

\* The run is between setRunning(true) and setRunning(false).
Executing == pc \in {"sampling", "propagating", "detecting"}

\* C27: running is true only while an analysis run is executing, and every
\* run that has set it sets it back to false: it is false once the run has
\* ended, and a run that holds it is on its way to its end (when it is in the
\* sample loop, the loop moves t towards the end of the window).
C27_RunningIsReset ==
  /\ running => Executing
  /\ pc = "done" => ~running
  /\ (running /\ pc = "sampling" /\ SampleLoopContinues(t, end)) =>
       end - NextSampleTime(t, sampleSec) < end - t

(***************************************************************************)
(* The k loop of one pair on longer trajectories                           *)
(***************************************************************************)
\* Length of the longer trajectories the k loop is applied to on its own.
MaxTrajectory == 12

\* The sample indices at which the two trajectories coincide: none, one or two.
CoincidenceSets == {cs \in SUBSET (0..(MaxTrajectory - 1)) : Cardinality(cs) <= 2}

\* Where the second satellite is when it is not at the first one's position.
Patterns == {"near", "far", "mixed"}
PatternAt(pat, k) ==
  CASE pat = "near" -> <<3, 0, 0>>
    [] pat = "far" -> <<0, 4, 0>>
    [] pat = "mixed" -> IF k % 2 = 0 THEN <<0, 4, 0>> ELSE <<3, 0, 0>>

\* Two trajectories as the propagation loops leave them, 30 s apart; the
\* second one has lost its first `shift` samples.
InitDetect ==
  /\ \E la, lb \in {MaxTrajectory - 1, MaxTrajectory}, cs \in CoincidenceSets,
        pat \in Patterns, shift \in {0, 1} :
       /\ trajA = [k \in 1..la |-> [t |-> 5000 + (k - 1) * 30 * 1000, eci |-> <<0, 0, 0>>]]
       /\ trajB = [k \in 1..lb |->
                     [t |-> 5000 + (k - 1 + shift) * 30 * 1000,
                      eci |-> IF (k - 1) \in cs THEN <<0, 0, 0>> ELSE PatternAt(pat, k - 1)]]
  /\ detThr \in ThresholdChoices
  /\ detPc = "idle"
  /\ detOut = NoOutput
  /\ sats = <<>>
  /\ thresholdKm = 5
  /\ windowMinutes = 60
  /\ sampleSec = 30
  /\ RunIdle
  /\ ClassIdle
  /\ ParseIdle
  /\ AsyncIdle
  /\ RiskIdle
  /\ AnalyzerIdle
  /\ HookIdle

\* One iteration of the j loop on trajA and trajB.
DetectOnce ==
  /\ detPc = "idle"
  /\ LET r == PairScan(trajA, trajB)
     IN detOut' =
          IF EmitsConjunction(r.minD, r.minTime, detThr)
          THEN [pushed |-> TRUE, satA |-> "A", satB |-> "B", miss_km |-> r.minD.v,
                tca |-> r.minTime, sampleIndex |-> r.minIdx]
          ELSE NoOutput
  /\ detPc' = "done"
  /\ UNCHANGED <<trajA, trajB, detThr, dashVars, runVars, classVars, parseVars, asyncVars, riskVars, analyzerVars, hookVars>>

NextDetect == DetectOnce

SpecDetect == InitDetect /\ [][NextDetect]_vars

\* The indices at which the two trajectories are at the same position.
CoincideAt == {k \in 0..(AlignedLength(trajA, trajB) - 1) :
                 trajA[k + 1].eci = trajB[k + 1].eci}

\* C13: the sampleIndex of an emitted conjunction is an aligned index at which
\* the distance of the two trajectories equals miss_km, and tca is the
\* timestamp the first trajectory stores at that index; when the trajectories
\* coincide at exactly one index c (10 for instance) and the threshold is
\* positive, the conjunction is emitted with miss_km 0 and sampleIndex c.
C13_IndexOfMinimum ==
  detPc = "done" =>
    /\ detOut.pushed =>
         /\ detOut.sampleIndex \in 0..(AlignedLength(trajA, trajB) - 1)
         /\ Distance(trajA[detOut.sampleIndex + 1].eci, trajB[detOut.sampleIndex + 1].eci)
              = detOut.miss_km
         /\ detOut.tca = trajA[detOut.sampleIndex + 1].t
    /\ \A c \in 0..(MaxTrajectory - 1) :
         (CoincideAt = {c} /\ detThr > 0) =>
           /\ detOut.pushed
           /\ detOut.miss_km = 0
           /\ detOut.sampleIndex = c

\* The two trajectories coincide at sample index 10 and nowhere else, and the
\* second one stores other timestamps than the first.
C13_Witness ==
  /\ detPc = "done"
  /\ CoincideAt = {10}
  /\ trajB[11].t # trajA[11].t
  /\ detOut.pushed
  /\ detOut.miss_km = 0
  /\ detOut.sampleIndex = 10

(***************************************************************************)
(* SatelliteDashboard as a whole: every handler is one step                *)
(***************************************************************************)
\* Requests fetchSatellitesFromCelestrak may start in one behaviour.
MaxFetches == 3

\* Satellite lists a response or the textarea can parse to.
DashSatLists == {l \in SatLists : Len(l) <= 2}

\* satellite.propagate is a function of the satrec and the time: the first
\* satellite stays at the origin, the second is 3 km away at the first sample
\* time and has no position later, the third is 4 km away.
Ephemeris(sat, n) ==
  CASE sat.l1[3] = "a" -> [kind |-> "pos", position |-> <<0, 0, 0>>]
    [] sat.l1[3] = "b" -> IF n = 0 THEN [kind |-> "pos", position |-> <<3, 0, 0>>]
                          ELSE [kind |-> "nopos", position |-> <<0, 0, 0>>]
    [] OTHER -> [kind |-> "pos", position |-> <<0, 4, 0>>]

\* The state a render shows to the functions created in it.
Render ==
  [sats |-> sats, thresholdKm |-> thresholdKm, windowMinutes |-> windowMinutes,
   sampleSec |-> sampleSec]

\* The sample-time loop.
RECURSIVE SampleTimes(_, _, _, _)
SampleTimes(tt, e, step, acc) ==
  IF SampleLoopContinues(tt, e)
  THEN SampleTimes(NextSampleTime(tt, step), e, step, Append(acc, tt))
  ELSE acc

\* The ti loop of one satellite.
RECURSIVE Propagated(_, _, _, _)
Propagated(sat, smp, n, acc) ==
  IF n >= Len(smp) THEN acc
  ELSE Propagated(sat, smp, n + 1,
         PushIfPropagated(acc, smp[n + 1], propagateEci(Ephemeris(sat, n))))

\* The i and j loops from the pair (a, b) on.
RECURSIVE PairLoop(_, _, _, _, _, _)
PairLoop(r, ss, a, b, acc, n) ==
  IF b >= n THEN acc
  ELSE LET m == PairScan(ss[a + 1].positions, ss[b + 1].positions)
           nxt == NextPair(a, b, n)
       IN PairLoop(r, ss, nxt[1], nxt[2],
            IF EmitsConjunction(m.minD, m.minTime, r.thresholdKm)
            THEN Append(acc,
                   [satA |-> NameOr(r.sats[a + 1].name, a), satB |-> NameOr(r.sats[b + 1].name, b),
                    miss_km |-> m.minD.v, tca |-> m.minTime, sampleIndex |-> m.minIdx])
            ELSE acc, n)

\* What computeTracksAndConjunctions publishes for the non-empty list of the
\* render r when started at `start`.
AnalysisOf(r, start) ==
  LET smp == SampleTimes(start, WindowEnd(start, r.windowMinutes), r.sampleSec, <<>>)
      ss == [k \in 1..Len(r.sats) |->
               [name |-> r.sats[k].name, positions |-> Propagated(r.sats[k], smp, 0, <<>>)]]
      cj == PairLoop(r, ss, 0, 1, <<>>, Len(ss))
  IN [tracks |-> [k \in 1..Len(ss) |->
                    [name |-> ss[k].name,
                     points |-> [q \in 1..Len(ss[k].positions) |->
                                   [t |-> ss[k].positions[q].t, eci |-> ss[k].positions[q].eci]]]],
      conjunctions |-> cj,
      alerts |-> IF Len(cj) > 0
                 THEN [k \in 1..Len(cj) |->
                         [kind |-> "close", satA |-> cj[k].satA, satB |-> cj[k].satB,
                          tca |-> cj[k].tca]]
                 ELSE <<[kind |-> "none", satA |-> "", satB |-> "", tca |-> NullTime]>>,
      toast |-> IF Len(cj) > 0 THEN "Conjunction Alert!" ELSE "Analysis Complete"]

\* computeTracksAndConjunctions as created in the render r, run to its end.
Compute(r) ==
  IF Len(r.sats) = 0
  THEN /\ toast' = "No Satellites"
       /\ lastRun' = [kind |-> "empty", sats |-> r.sats]
       /\ UNCHANGED <<tracks, conjunctions, alerts, running>>
  ELSE \E start \in StartTimes :
         LET a == AnalysisOf(r, start)
         IN /\ tracks' = a.tracks
            /\ conjunctions' = a.conjunctions
            /\ alerts' = a.alerts
            /\ toast' = a.toast
            /\ running' = FALSE
            /\ lastRun' = [kind |-> "full", sats |-> r.sats]

\* The dashboard after its first render, the inputs set to a 1-minute window
\* sampled every 60 s; the autoLoaded effect is due.
InitDash ==
  /\ sats = <<>>
  /\ thresholdKm = 5
  /\ windowMinutes = 1
  /\ sampleSec = 60
  /\ RunIdle
  /\ ClassIdle
  /\ ParseIdle
  /\ DetIdle
  /\ RiskIdle
  /\ AnalyzerIdle
  /\ HookIdle
  /\ loading = FALSE
  /\ autoLoaded = FALSE
  /\ effectDue = TRUE
  /\ fetches = <<>>
  /\ timers = <<>>
  /\ fetchCount = 0
  /\ lastRun = NoRun
  /\ userActed = FALSE

dashFixed == <<thresholdKm, windowMinutes, sampleSec, runVars, classVars, parseVars, detVars,
               riskVars, analyzerVars, hookVars>>

\* useEffect(() => { if (!autoLoaded) fetchSatellitesFromCelestrak() }, [autoLoaded])
\* up to the await of fetch.
AutoLoadEffect ==
  /\ effectDue
  /\ effectDue' = FALSE
  /\ IF ~autoLoaded /\ fetchCount < MaxFetches
     THEN /\ loading' = TRUE
          /\ fetches' = Append(fetches, Render)
          /\ fetchCount' = fetchCount + 1
     ELSE UNCHANGED <<loading, fetches, fetchCount>>
  /\ lastRun' = NoRun
  /\ UNCHANGED <<sats, tracks, conjunctions, alerts, running, toast, autoLoaded, timers, userActed, dashFixed>>

\* The Refresh button (disabled while loading) up to the await of fetch.
ClickRefresh ==
  /\ ~effectDue
  /\ ~loading
  /\ fetchCount < MaxFetches
  /\ loading' = TRUE
  /\ fetches' = Append(fetches, Render)
  /\ fetchCount' = fetchCount + 1
  /\ lastRun' = NoRun
  /\ userActed' = TRUE
  /\ UNCHANGED <<sats, tracks, conjunctions, alerts, running, toast, autoLoaded, effectDue, timers, dashFixed>>

\* fetchSatellitesFromCelestrak after the awaits, the response parsed.
FetchSucceeds ==
  /\ ~effectDue
  /\ \E f \in 1..Len(fetches), parsed \in DashSatLists :
       /\ sats' = parsed
       /\ timers' = Append(timers, fetches[f])
       /\ fetches' = SubSeq(fetches, 1, f - 1) \o SubSeq(fetches, f + 1, Len(fetches))
  /\ conjunctions' = <<>>
  /\ tracks' = <<>>
  /\ alerts' = <<>>
  /\ autoLoaded' = TRUE
  /\ effectDue' = ~autoLoaded
  /\ toast' = "Satellites Loaded"
  /\ loading' = FALSE
  /\ lastRun' = NoRun
  /\ UNCHANGED <<running, fetchCount, userActed, dashFixed>>

\* fetchSatellitesFromCelestrak after the awaits, the request failed.
FetchFails ==
  /\ ~effectDue
  /\ \E f \in 1..Len(fetches) :
       fetches' = SubSeq(fetches, 1, f - 1) \o SubSeq(fetches, f + 1, Len(fetches))
  /\ toast' = "Error Loading Satellites"
  /\ loading' = FALSE
  /\ lastRun' = NoRun
  /\ UNCHANGED <<sats, tracks, conjunctions, alerts, running, autoLoaded, effectDue, timers, fetchCount, userActed, dashFixed>>

\* setTimeout(() => computeTracksAndConjunctions(), 500) fires: the timers have
\* the same delay and fire in the order they were set.
TimerFires ==
  /\ ~effectDue
  /\ Len(timers) > 0
  /\ Compute(Head(timers))
  /\ timers' = Tail(timers)
  /\ UNCHANGED <<sats, loading, autoLoaded, effectDue, fetches, fetchCount, userActed, dashFixed>>

\* The Run Analysis button.
ClickRunAnalysis ==
  /\ ~effectDue
  /\ ~(running \/ Len(sats) = 0)
  /\ Compute(Render)
  /\ userActed' = TRUE
  /\ UNCHANGED <<sats, loading, autoLoaded, effectDue, fetches, timers, fetchCount, dashFixed>>

\* loadTLEs on whatever the textarea holds.
ClickLoadTLEs ==
  /\ ~effectDue
  /\ sats' \in DashSatLists
  /\ conjunctions' = <<>>
  /\ tracks' = <<>>
  /\ alerts' = <<>>
  /\ toast' = "TLEs Loaded"
  /\ lastRun' = NoRun
  /\ userActed' = TRUE
  /\ UNCHANGED <<running, loading, autoLoaded, effectDue, fetches, timers, fetchCount, dashFixed>>

\* The Clear All button.
ClickClearAll ==
  /\ ~effectDue
  /\ sats' = <<>>
  /\ tracks' = <<>>
  /\ conjunctions' = <<>>
  /\ alerts' = <<>>
  /\ autoLoaded' = FALSE
  /\ effectDue' = autoLoaded
  /\ lastRun' = NoRun
  /\ userActed' = TRUE
  /\ UNCHANGED <<running, toast, loading, fetches, timers, fetchCount, dashFixed>>

NextDash ==
  \/ AutoLoadEffect
  \/ ClickRefresh
  \/ FetchSucceeds
  \/ FetchFails
  \/ TimerFires
  \/ ClickRunAnalysis
  \/ ClickLoadTLEs
  \/ ClickClearAll

SpecDash == InitDash /\ [][NextDash]_vars

\* C14: running the analysis when the list of loaded satellites is empty does
\* not fail and yields empty results: right after a run that found its list
\* empty, while the loaded list is empty, the published tracks and
\* conjunctions are both empty.
C14_EmptyListEmptyResults ==
  (lastRun.kind = "empty" /\ sats = <<>>) => (tracks = <<>> /\ conjunctions = <<>>)

\* The auto-load succeeded with at least one satellite, no button has been
\* clicked, and nothing is left to happen: no request is in flight, no timer
\* is set and no effect is due.
AutoLoadSettled ==
  /\ ~userActed
  /\ autoLoaded
  /\ sats # <<>>
  /\ fetches = <<>>
  /\ timers = <<>>
  /\ ~effectDue

\* C24: the analysis scheduled 500 ms after a successful load runs over the
\* satellites that were just loaded: once a successful auto-load of at least
\* one satellite has settled with no user action, tracks are published for
\* exactly those satellites.
C24_AutoRunUsesLoadedSatellites ==
  AutoLoadSettled =>
    /\ Len(tracks) = Len(sats)
    /\ \A k \in 1..Len(sats) : tracks[k].name = sats[k].name

\* The names of the satellites that are loaded.
LoadedNames == {sats[k].name : k \in 1..Len(sats)}

\* C25: under any interleaving of Load, Refresh, Run Analysis, Clear All and
\* the delayed auto-run, the published tracks and conjunctions are empty or
\* computed from the current satellite list: every track name and every
\* conjunction's satA and satB is the name of a loaded satellite, and with no
\* satellite loaded there is no track and no conjunction.
C25_ResultsOfCurrentList ==
  /\ \A k \in 1..Len(tracks) : tracks[k].name \in LoadedNames
  /\ \A k \in 1..Len(conjunctions) :
       conjunctions[k].satA \in LoadedNames /\ conjunctions[k].satB \in LoadedNames
  /\ sats = <<>> => (tracks = <<>> /\ conjunctions = <<>>)

(***************************************************************************)
(* The risk functions of MeteorTracker, SpaceDebrisTracker and             *)
(* useRealTimeSpaceData.  Numbers are exact fractions n/d in lowest terms  *)
(* with d > 0; NaN is what parseFloat gives for a missing field.           *)
(***************************************************************************)
Abs(x) == IF x < 0 THEN -x ELSE x
RECURSIVE Gcd(_, _)
Gcd(a, b) == IF b = 0 THEN a ELSE Gcd(b, a % b)
Rat(n, d) == LET g == Gcd(Abs(n), d) IN [n |-> n \div g, d |-> d \div g]
Zero == Rat(0, 1)
One == Rat(1, 1)
NaN == [nan |-> TRUE]
RMul(a, b) ==
  LET g1 == Gcd(Abs(a.n), b.d)
      g2 == Gcd(Abs(b.n), a.d)
  IN Rat((a.n \div g1) * (b.n \div g2), (a.d \div g2) * (b.d \div g1))
RDiv(a, b) == RMul(a, [n |-> b.d, d |-> b.n])
RAdd(a, b) ==
  LET g == Gcd(a.d, b.d)
  IN Rat(a.n * (b.d \div g) + b.n * (a.d \div g), (a.d \div g) * b.d)
RSub(a, b) == RAdd(a, [n |-> -b.n, d |-> b.d])
RLess(a, b) == LET g == Gcd(a.d, b.d) IN a.n * (b.d \div g) < b.n * (a.d \div g)
RMin(a, b) == IF RLess(b, a) THEN b ELSE a
RMax(a, b) == IF RLess(a, b) THEN b ELSE a

\* parseFloat(x) || dflt
OrDefault(x, dflt) == IF x = NaN THEN dflt ELSE IF x.n = 0 THEN dflt ELSE x

\* Math.log10 to three decimals on the values diameterKm + 0.1 takes here.
Log10(x) ==
  CASE x = Rat(1, 10) -> Rat(-1, 1)
    [] x = Rat(1, 5) -> Rat(-699, 1000)
    [] x = Rat(6, 25) -> Rat(-620, 1000)
    [] x = Rat(1, 4) -> Rat(-602, 1000)
    [] x = Rat(3, 10) -> Rat(-523, 1000)
    [] x = One -> Zero
    [] x = Rat(10, 1) -> One
    [] x = Rat(1000, 1) -> Rat(3, 1)

AuKm == 149597871
EarthRadiusKm == 6371
SatelliteRangeKm == 50000

\* Math.min(probability, 0.95), Math.min(risk, 0.8), Math.min(riskScore, 1.0)
CapAt_None(x, cap) == x
CapAt(x, cap) == RMin(x, cap)

calculateEarthImpactProbability(missDistanceAU, diameterKm, velocityKmS) ==
  LET missDistanceKm == RMul(missDistanceAU, Rat(AuKm, 1))
      criticalDistance == Rat(EarthRadiusKm * 10, 1)
      probability ==
        IF RLess(missDistanceKm, criticalDistance)
        THEN RMul(RMul(RMax(Zero, RSub(One, RDiv(missDistanceKm, criticalDistance))),
                       RAdd(One, RMul(Log10(RAdd(diameterKm, Rat(1, 10))), Rat(1, 10)))),
                  RAdd(One, RDiv(velocityKmS, Rat(100, 1))))
        ELSE Zero
  IN CapAt(probability, Rat(95, 100))

calculateSatelliteCollisionRisk(missDistanceAU, diameterKm, velocityKmS) ==
  LET missDistanceKm == RMul(missDistanceAU, Rat(AuKm, 1))
  IN IF RLess(missDistanceKm, Rat(SatelliteRangeKm, 1))
     THEN CapAt(RMul(RMul(RMul(Rat(1, 10), RAdd(One, diameterKm)),
                          RAdd(One, RDiv(velocityKmS, Rat(50, 1)))),
                     RMax(Zero, RSub(One, RDiv(missDistanceKm, Rat(SatelliteRangeKm, 1))))),
                Rat(8, 10))
     ELSE Zero

\* hazardous: missDistance < 0.05 && diameterMin > 0.14 (MeteorTracker)
TrackerHazardous(missDistance, diameterMin) ==
  RLess(missDistance, Rat(5, 100)) /\ RLess(Rat(14, 100), diameterMin)

\* if (missDistance < 0.05 && diameter > 0.14) hazardous++ (useRealTimeSpaceData)
HookHazardous_Inclusive(missDistance, diameter) ==
  ~RLess(Rat(5, 100), missDistance) /\ RLess(Rat(14, 100), diameter)
HookHazardous(missDistance, diameter) ==
  RLess(missDistance, Rat(5, 100)) /\ RLess(Rat(14, 100), diameter)

\* data.data.map(...) of fetchNearEarthObjects: one NearEarthObject per item.
NearEarthObjectOf(item) ==
  LET relativeVelocity == OrDefault(item.v_rel, Zero)
      missDistance == OrDefault(item.dist, Zero)
      diameterMin == OrDefault(item.diameter, Rat(1, 10))
  IN [name |-> item.name, diameter_min |-> diameterMin, relative_velocity |-> relativeVelocity,
      miss_distance |-> missDistance,
      hazardous |-> TrackerHazardous(missDistance, diameterMin),
      impact_probability |->
        calculateEarthImpactProbability(missDistance, diameterMin, relativeVelocity),
      satellite_collision_risk |->
        calculateSatelliteCollisionRisk(missDistance, diameterMin, relativeVelocity)]

\* energyMegatons: a sphere of diameter_min km and 2500 kg/m3 at
\* relative_velocity km/s.  volume = 4/3 pi (500 d)^3 m3 and the energy
\* 1/2 * 2500 * volume * (1000 v)^2 J, divided by 4.184e15, is
\* 4/3 * pi * 125 * 2500 * 1/2 / 4184 * d^3 * v^2, with pi taken as 355/113.
EnergyMegatons(obj) ==
  LET k == RDiv(RMul(RMul(RMul(RMul(Rat(4, 3), Rat(355, 113)), Rat(125, 1)), Rat(2500, 1)),
                     Rat(1, 2)), Rat(4184, 1))
      d == obj.diameter_min
      v == obj.relative_velocity
  IN RMul(RMul(k, RMul(RMul(d, d), d)), RMul(v, v))

\* riskLevel of calculateImpactRisks
ImpactRiskLevel(maxProb, energyMegatons) ==
  IF RLess(Rat(6, 10), maxProb) \/ RLess(Rat(100, 1), energyMegatons) THEN "CRITICAL"
  ELSE IF RLess(Rat(3, 10), maxProb) \/ RLess(Rat(10, 1), energyMegatons) THEN "HIGH"
  ELSE IF RLess(Rat(1, 10), maxProb) \/ RLess(One, energyMegatons) THEN "MEDIUM"
  ELSE "LOW"

\* riskLevel of calculateCollisionRisks
CollisionRiskLevel(probability) ==
  IF RLess(Rat(8, 10), probability) THEN "CRITICAL"
  ELSE IF RLess(Rat(6, 10), probability) THEN "HIGH"
  ELSE IF RLess(Rat(3, 10), probability) THEN "MEDIUM"
  ELSE "LOW"

\* s.filter(keep) as the subsequence of the indices in `keep`.
RECURSIVE FilterSeq(_, _, _)
FilterSeq(q, keep, k) ==
  IF k > Len(q) THEN <<>>
  ELSE (IF k \in keep THEN <<q[k]>> ELSE <<>>) \o FilterSeq(q, keep, k + 1)

\* q.sort((a, b) => key(b) - key(a)).slice(0, top): a stable sort by
\* descending keys[k], the key of q[k].
SortDescTop(q, keys, top) ==
  LET rank(x) == 1 + Cardinality({y \in 1..Len(q) : RLess(keys[x], keys[y])})
                   + Cardinality({y \in 1..(x - 1) : keys[y] = keys[x]})
      sorted == [r \in 1..Len(q) |-> q[CHOOSE x \in 1..Len(q) : rank(x) = r]]
  IN SubSeq(sorted, 1, Min(top, Len(q)))

calculateImpactRisks(objects) ==
  LET kept == FilterSeq(objects,
                {k \in 1..Len(objects) :
                   \/ RLess(Rat(1, 100), objects[k].impact_probability)
                   \/ RLess(Rat(1, 10), objects[k].satellite_collision_risk)}, 1)
      risks == [k \in 1..Len(kept) |->
                  [object |-> kept[k].name,
                   earthProbability |-> kept[k].impact_probability,
                   satelliteProbability |-> kept[k].satellite_collision_risk,
                   impactEnergy |-> EnergyMegatons(kept[k]),
                   riskLevel |->
                     ImpactRiskLevel(RMax(kept[k].impact_probability,
                                          kept[k].satellite_collision_risk),
                                     EnergyMegatons(kept[k]))]]
  IN SortDescTop(risks,
       [k \in 1..Len(risks) |-> RMax(risks[k].earthProbability, risks[k].satelliteProbability)],
       10)

\* calculateEarthImpactRisk of SpaceDebrisTracker on a satrec and what
\* satellite.propagate does with it now.
calculateEarthImpactRisk(rec) ==
  IF rec.propagate.kind = "throw" THEN Rat(3, 10)
  ELSE IF rec.propagate.kind = "nopos" THEN Rat(1, 10)
  ELSE LET altitude == rec.propagate.alt
           band == IF altitude < 200 THEN Rat(8, 10)
                   ELSE IF altitude < 400 THEN Rat(6, 10)
                   ELSE IF altitude < 800 THEN Rat(4, 10)
                   ELSE IF altitude < 1500 THEN Rat(2, 10)
                   ELSE Zero
       IN CapAt(RAdd(RAdd(band, RMul(rec.ecco, Rat(3, 10))),
                     RMin(RMul(rec.no, Rat(1, 1000)), Rat(2, 10))),
                One)

\* if (distance < 50)
WithinRange(distance) == distance < 50

\* Math.min(relativeVelocity / 10, 1)
VelocityFactor_Unbounded(relativeVelocity) == Rat(relativeVelocity, 10)
VelocityFactor(relativeVelocity) == RMin(Rat(relativeVelocity, 10), One)

\* The body of the two forEach of calculateCollisionRisks for one debris
\* object and one satellite: the risks it pushes.
PairRisks(debris, sat) ==
  IF debris.state.kind = "throw" \/ sat.state.kind = "throw" THEN <<>>
  ELSE IF debris.state.kind = "nopos" \/ sat.state.kind = "nopos" THEN <<>>
  ELSE LET distance == Distance(debris.state.position, sat.state.position)
       IN IF debris.state.kind = "novel" \/ sat.state.kind = "novel" THEN <<>>
          ELSE LET relativeVelocity == Distance(debris.state.velocity, sat.state.velocity)
                   probability ==
                     IF WithinRange(distance)
                     THEN RMul(RMax(Zero, Rat(50 - distance, 50)),
                               VelocityFactor(relativeVelocity))
                     ELSE Zero
               IN IF WithinRange(distance) /\ RLess(Rat(1, 10), probability)
                  THEN <<[debris |-> debris.name, satellite |-> sat.name,
                          probability |-> probability, distance |-> distance,
                          riskLevel |-> CollisionRiskLevel(probability)]>>
                  ELSE <<>>

RECURSIVE AllPairRisks(_, _, _, _)
AllPairRisks(debrisObjects, satelliteObjects, di, sj) ==
  IF di > Len(debrisObjects) THEN <<>>
  ELSE IF sj > Len(satelliteObjects) THEN AllPairRisks(debrisObjects, satelliteObjects, di + 1, 1)
  ELSE PairRisks(debrisObjects[di], satelliteObjects[sj])
         \o AllPairRisks(debrisObjects, satelliteObjects, di, sj + 1)

calculateCollisionRisks(debrisObjects, satelliteObjects) ==
  LET risks == AllPairRisks(debrisObjects, satelliteObjects, 1, 1)
  IN SortDescTop(risks, [k \in 1..Len(risks) |-> risks[k].probability], 20)

\* Items of the close-approach response: designation, miss distance (AU),
\* relative velocity (km/s), diameter (km), each of the three possibly missing,
\* and the days until the close approach.  The k-th item of a response has the
\* k-th designation.
NeoNames == <<"2024 AB", "2024 CD">>
NeoItems ==
  [name : {NeoNames[1], NeoNames[2]},
   dist : {NaN, Rat(31855, AuKm), Rat(1, 100), Rat(5, 100), Rat(6, 100)},
   v_rel : {NaN, Rat(20, 1)},
   diameter : {NaN, Zero, Rat(14, 100), Rat(15, 100), Rat(2, 10)},
   days : {2, 30}]

\* Arguments the two NEO risk functions are applied to on their own: zero,
\* the boundary distances and very large values.
NeoArguments ==
  [missDistanceAU : {Zero, Rat(25000, AuKm), Rat(EarthRadiusKm * 10, AuKm),
                     Rat(SatelliteRangeKm, AuKm), Rat(1, 100), Rat(10, 1)},
   diameterKm : {Zero, Rat(9, 10), Rat(99, 10), Rat(9999, 10)},
   velocityKmS : {Zero, Rat(50, 1), Rat(10000, 1)}]

\* Debris satrecs: eccentricity, mean motion (rad/min) and what propagate
\* gives now.
DebrisRecords ==
  [ecco : {Zero, Rat(1, 2), Rat(999, 1000)},
   no : {Zero, Rat(6, 100), Rat(1000, 1)},
   propagate : [kind : {"pos"}, alt : {0, 199, 200, 399, 400, 799, 800, 1499, 1500, 36000}]
                 \cup {[kind |-> "nopos", alt |-> 0], [kind |-> "throw", alt |-> 0]}]

\* What propagate gives now for one object of calculateCollisionRisks: a
\* position and a velocity, no velocity, no position, or an exception.
ObjectStates ==
  [kind : {"ok"},
   position : {<<0, 0, 0>>, <<5, 0, 0>>, <<15, 0, 0>>, <<0, 20, 0>>, <<0, 45, 0>>, <<30, 40, 0>>,
               <<0, 0, 60>>},
   velocity : {<<0, 0, 0>>, <<3, 4, 0>>, <<0, 12, 0>>}]
  \cup [kind : {"novel", "nopos", "throw"}, position : {<<0, 0, 60>>}, velocity : {<<0, 0, 0>>}]

InitRisk ==
  /\ \/ /\ riskKind = "neo"
        /\ \E n \in {1, 2} :
             /\ riskIn \in [1..n -> NeoItems]
             /\ \A k \in 1..n : riskIn[k].name = NeoNames[k]
     \/ /\ riskKind = "probe"
        /\ riskIn \in NeoArguments
     \/ /\ riskKind = "debris"
        /\ riskIn \in DebrisRecords
     \/ /\ riskKind = "pair"
        /\ \E ds \in ObjectStates \X ObjectStates, ss \in ObjectStates :
             /\ ss.kind # "ok" \/ (ss.position = <<0, 0, 0>> /\ ss.velocity = <<0, 0, 0>>)
             /\ riskIn = [debrisObjects |-> <<[name |-> "FENGYUN 1C DEB", state |-> ds[1]],
                                              [name |-> "COSMOS 1408 DEB", state |-> ds[2]]>>,
                          satelliteObjects |-> <<[name |-> "ISS (ZARYA)", state |-> ss]>>]
  /\ riskDone = {}
  /\ meteors = <<>>
  /\ impactRisks = <<>>
  /\ hookMeteor = [count |-> 0, approaching |-> 0, potentiallyHazardous |-> 0]
  /\ probeOut = <<>>
  /\ debrisRisk = <<>>
  /\ collisionRisks = <<>>
  /\ sats = <<>>
  /\ thresholdKm = 5
  /\ windowMinutes = 60
  /\ sampleSec = 30
  /\ RunIdle
  /\ ClassIdle
  /\ ParseIdle
  /\ DetIdle
  /\ AsyncIdle
  /\ AnalyzerIdle
  /\ HookIdle

riskFixed == <<riskKind, riskIn, dashVars, runVars, classVars, parseVars, detVars, asyncVars,
               analyzerVars, hookVars>>

\* fetchNearEarthObjects of MeteorTracker once the response is parsed.
TrackerFetch ==
  /\ riskKind = "neo"
  /\ "tracker" \notin riskDone
  /\ riskDone' = riskDone \cup {"tracker"}
  /\ meteors' = [k \in 1..Len(riskIn) |-> NearEarthObjectOf(riskIn[k])]
  /\ impactRisks' = calculateImpactRisks(meteors')
  /\ UNCHANGED <<hookMeteor, probeOut, debrisRisk, collisionRisks, riskFixed>>

\* fetchMeteorData of useRealTimeSpaceData once the response is parsed.
HookFetch ==
  /\ riskKind = "neo"
  /\ "hook" \notin riskDone
  /\ riskDone' = riskDone \cup {"hook"}
  /\ hookMeteor' =
       [count |-> Len(riskIn),
        approaching |-> Cardinality({k \in 1..Len(riskIn) : riskIn[k].days < 7}),
        potentiallyHazardous |->
          Cardinality({k \in 1..Len(riskIn) :
                         HookHazardous(OrDefault(riskIn[k].dist, Zero),
                                       OrDefault(riskIn[k].diameter, Zero))})]
  /\ UNCHANGED <<meteors, impactRisks, probeOut, debrisRisk, collisionRisks, riskFixed>>

\* The two NEO risk functions applied to the drawn arguments.
ApplyNeoRisk ==
  /\ riskKind = "probe"
  /\ riskDone = {}
  /\ riskDone' = {"probe"}
  /\ probeOut' =
       [impact_probability |->
          calculateEarthImpactProbability(riskIn.missDistanceAU, riskIn.diameterKm,
                                          riskIn.velocityKmS),
        satellite_collision_risk |->
          calculateSatelliteCollisionRisk(riskIn.missDistanceAU, riskIn.diameterKm,
                                          riskIn.velocityKmS)]
  /\ UNCHANGED <<meteors, impactRisks, hookMeteor, debrisRisk, collisionRisks, riskFixed>>

\* const earthRisk = calculateEarthImpactRisk(satrec)
ApplyDebrisRisk ==
  /\ riskKind = "debris"
  /\ riskDone = {}
  /\ riskDone' = {"debris"}
  /\ debrisRisk' = calculateEarthImpactRisk(riskIn)
  /\ UNCHANGED <<meteors, impactRisks, hookMeteor, probeOut, collisionRisks, riskFixed>>

\* calculateCollisionRisks(debris, satellites)
ApplyCollisionRisks ==
  /\ riskKind = "pair"
  /\ riskDone = {}
  /\ riskDone' = {"pair"}
  /\ collisionRisks' = calculateCollisionRisks(riskIn.debrisObjects, riskIn.satelliteObjects)
  /\ UNCHANGED <<meteors, impactRisks, hookMeteor, probeOut, debrisRisk, riskFixed>>

NextRisk ==
  \/ TrackerFetch
  \/ HookFetch
  \/ ApplyNeoRisk
  \/ ApplyDebrisRisk
  \/ ApplyCollisionRisks

SpecRisk == InitRisk /\ [][NextRisk]_vars

InRange(x, lo, hi) == ~RLess(x, lo) /\ ~RLess(hi, x)

\* C16: for non-negative inputs, zero and very large values included, the
\* Earth-impact probability is in [0, 0.95], the satellite-collision risk in
\* [0, 0.8] and the debris re-entry risk in [0, 1], also when propagation gives
\* no position or throws.
C16_RisksWithinBounds ==
  /\ "probe" \in riskDone =>
       /\ InRange(probeOut.impact_probability, Zero, Rat(95, 100))
       /\ InRange(probeOut.satellite_collision_risk, Zero, Rat(8, 10))
  /\ \A k \in 1..Len(meteors) :
       /\ InRange(meteors[k].impact_probability, Zero, Rat(95, 100))
       /\ InRange(meteors[k].satellite_collision_risk, Zero, Rat(8, 10))
  /\ "debris" \in riskDone => InRange(debrisRisk, Zero, One)

\* A very large and very fast object inside both ranges: both NEO functions
\* give their cap.
C16_Witness ==
  /\ "probe" \in riskDone
  /\ riskIn.diameterKm = Rat(9999, 10)
  /\ riskIn.velocityKmS = Rat(10000, 1)
  /\ probeOut.impact_probability = Rat(95, 100)
  /\ probeOut.satellite_collision_risk = Rat(8, 10)

\* The thresholds the documentation gives for every risk level.
SharedRiskLevel(prob, energyMegatons) ==
  IF RLess(Rat(6, 10), prob) \/ RLess(Rat(100, 1), energyMegatons) THEN "CRITICAL"
  ELSE IF RLess(Rat(3, 10), prob) \/ RLess(Rat(10, 1), energyMegatons) THEN "HIGH"
  ELSE IF RLess(Rat(1, 10), prob) \/ RLess(One, energyMegatons) THEN "MEDIUM"
  ELSE "LOW"

\* C17: every risk level follows the shared thresholds (CRITICAL above 0.6 or
\* 100 MT, HIGH above 0.3 or 10 MT, MEDIUM above 0.1 or 1 MT, else LOW): the
\* level of every NEO impact risk, from its larger probability and its energy,
\* and the level of every debris-satellite collision risk, from its
\* probability alone.
C17_SharedThresholds ==
  /\ \A k \in 1..Len(impactRisks) :
       impactRisks[k].riskLevel =
         SharedRiskLevel(RMax(impactRisks[k].earthProbability,
                              impactRisks[k].satelliteProbability),
                         impactRisks[k].impactEnergy)
  /\ \A k \in 1..Len(collisionRisks) :
       collisionRisks[k].riskLevel = SharedRiskLevel(collisionRisks[k].probability, Zero)

\* The probability the documentation gives for a separation and a relative
\* speed.
DocumentedProbability(distance, relativeSpeed) ==
  IF distance < 50
  THEN RMul(Rat(50 - distance, 50), IF relativeSpeed < 10 THEN Rat(relativeSpeed, 10) ELSE One)
  ELSE Zero

\* The pairs of calculateCollisionRisks whose two objects have a position and
\* a velocity.
MeasuredPairs ==
  {pr \in (1..Len(riskIn.debrisObjects)) \X (1..Len(riskIn.satelliteObjects)) :
     /\ riskIn.debrisObjects[pr[1]].state.kind = "ok"
     /\ riskIn.satelliteObjects[pr[2]].state.kind = "ok"}

\* C19: calculateCollisionRisks publishes a risk for a pair exactly when the
\* pair is closer than 50 km and ((50 - d)/50) * min(relativeSpeed/10, 1) is
\* greater than 0.1; the published probability is that value, it is in
\* [0, 1], and it is zero for every pair 50 km or more apart.
C19_CollisionProbability ==
  "pair" \in riskDone =>
    LET d(pr) == Distance(riskIn.debrisObjects[pr[1]].state.position,
                          riskIn.satelliteObjects[pr[2]].state.position)
        v(pr) == Distance(riskIn.debrisObjects[pr[1]].state.velocity,
                          riskIn.satelliteObjects[pr[2]].state.velocity)
        significant == {pr \in MeasuredPairs : RLess(Rat(1, 10), DocumentedProbability(d(pr), v(pr)))}
    IN /\ Len(collisionRisks) = Cardinality(significant)
       /\ \A pr \in MeasuredPairs :
            /\ InRange(DocumentedProbability(d(pr), v(pr)), Zero, One)
            /\ d(pr) >= 50 => DocumentedProbability(d(pr), v(pr)) = Zero
       /\ \A k \in 1..Len(collisionRisks) :
            /\ RLess(Rat(1, 10), collisionRisks[k].probability)
            /\ collisionRisks[k].distance < 50
            /\ \E pr \in significant :
                 /\ collisionRisks[k].debris = riskIn.debrisObjects[pr[1]].name
                 /\ collisionRisks[k].satellite = riskIn.satelliteObjects[pr[2]].name
                 /\ collisionRisks[k].distance = d(pr)
                 /\ collisionRisks[k].probability = DocumentedProbability(d(pr), v(pr))

\* One debris object 15 km away at 12 km/s is published with probability 0.7,
\* the other one, 45 km away (probability 0.1), is not.
C19_Witness ==
  /\ "pair" \in riskDone
  /\ Len(collisionRisks) = 1
  /\ collisionRisks[1].probability = Rat(7, 10)
  /\ collisionRisks[1].distance = 15
  /\ riskIn.debrisObjects[2].state.kind = "ok"
  /\ riskIn.debrisObjects[2].state.position = <<0, 45, 0>>
  /\ riskIn.debrisObjects[2].state.velocity = <<0, 12, 0>>

\* C20: a NEO is hazardous exactly when its miss distance is less than
\* 0.05 AU and its diameter greater than 0.14 km, both strictly (0.01 AU and
\* 0.2 km: hazardous), and useRealTimeSpaceData counts as potentially
\* hazardous exactly the items MeteorTracker marks hazardous.
C20_HazardousRule ==
  /\ \A k \in 1..Len(meteors) :
       /\ meteors[k].hazardous <=>
            (/\ meteors[k].miss_distance.n * 100 < 5 * meteors[k].miss_distance.d
             /\ meteors[k].diameter_min.n * 100 > 14 * meteors[k].diameter_min.d)
       /\ (riskIn[k].dist = Rat(1, 100) /\ riskIn[k].diameter = Rat(2, 10)) => meteors[k].hazardous
  /\ riskDone = {"tracker", "hook"} =>
       hookMeteor.potentiallyHazardous = Cardinality({k \in 1..Len(meteors) : meteors[k].hazardous})

\* Both handlers have run on an item at 0.01 AU with 0.2 km (hazardous) and an
\* item at exactly 0.05 AU with 0.2 km (not hazardous).
C20_Witness ==
  /\ riskDone = {"tracker", "hook"}
  /\ Len(riskIn) = 2
  /\ riskIn[1].dist = Rat(1, 100) /\ riskIn[1].diameter = Rat(2, 10)
  /\ riskIn[2].dist = Rat(5, 100) /\ riskIn[2].diameter = Rat(2, 10)
  /\ meteors[1].hazardous
  /\ ~meteors[2].hazardous
  /\ hookMeteor.potentiallyHazardous = 1

\* The same records produced in the opposite order.
Reverse(q) == [k \in 1..Len(q) |-> q[Len(q) + 1 - k]]

IsNonIncreasing(keys) == \A k \in 1..(Len(keys) - 1) : ~RLess(keys[k], keys[k + 1])

\* C21: the published collision-risk list and impact-risk list are in
\* non-increasing order of probability, and the published list does not depend
\* on the order in which the records were produced: the debris objects, or the
\* near-Earth objects, taken in the opposite order give the same list.
C21_OrderIndependentOfProduction ==
  /\ "pair" \in riskDone =>
       /\ IsNonIncreasing([k \in 1..Len(collisionRisks) |-> collisionRisks[k].probability])
       /\ collisionRisks =
            calculateCollisionRisks(Reverse(riskIn.debrisObjects), riskIn.satelliteObjects)
  /\ "tracker" \in riskDone =>
       /\ IsNonIncreasing([k \in 1..Len(impactRisks) |->
                             RMax(impactRisks[k].earthProbability,
                                  impactRisks[k].satelliteProbability)])
       /\ impactRisks = calculateImpactRisks(Reverse(meteors))

(***************************************************************************)
(* CollisionAnalyzer.performCollisionAnalysis.  Each list of the props is  *)
(* kept as the number of its elements of each kind the function tells      *)
(* apart.                                                                  *)
(***************************************************************************)
\* Most HIGH collision risks in the props.
MaxHighRisks == 6

\* riskScore after the five += and Math.min(riskScore, 100)
OverallRiskScore_Uncapped(ss, sd, ms, me, dr) ==
  Min(ss * 5 + Min(sd * 3, 20) + Min(ms * 8, 25) + Min(me * 10, 20) + Min(dr * 2, 10), 100)
OverallRiskScore(ss, sd, ms, me, dr) ==
  Min(Min(ss * 5, 25) + Min(sd * 3, 20) + Min(ms * 8, 25) + Min(me * 10, 20) + Min(dr * 2, 10),
      100)

performCollisionAnalysis(props) ==
  LET satelliteSatelliteRisks == props.collisionRisks.HIGH + props.collisionRisks.CRITICAL
      meteorSatelliteRisks == props.meteors.satellite + props.meteors.both
      meteorEarthRisks == props.meteors.earth + props.meteors.both
      debrisEarthReentryRisks == props.debris.reentry
      satelliteDebrisRisks ==
        props.collisionRisks.MEDIUM + props.collisionRisks.HIGH + props.collisionRisks.CRITICAL
      leoDensity == props.satellites.LEO + props.debris.reentry + props.debris.other
  IN [totalObjects |->
        props.satellites.LEO + props.debris.reentry + props.debris.other
          + props.meteors.satellite + props.meteors.earth + props.meteors.both
          + props.meteors.neither,
      satelliteSatelliteRisks |-> satelliteSatelliteRisks,
      satelliteDebrisRisks |-> satelliteDebrisRisks,
      meteorSatelliteRisks |-> meteorSatelliteRisks,
      meteorEarthRisks |-> meteorEarthRisks,
      debrisEarthReentryRisks |-> debrisEarthReentryRisks,
      overallRiskScore |->
        OverallRiskScore(satelliteSatelliteRisks, satelliteDebrisRisks, meteorSatelliteRisks,
                         meteorEarthRisks, debrisEarthReentryRisks),
      criticalAlerts |->
        (IF meteorEarthRisks > 0 THEN <<"meteor Earth impact">> ELSE <<>>)
        \o (IF satelliteSatelliteRisks > 5 THEN <<"high-risk conjunctions">> ELSE <<>>)
        \o (IF meteorSatelliteRisks > 3 THEN <<"meteors near satellites">> ELSE <<>>)
        \o (IF debrisEarthReentryRisks > 10 THEN <<"debris reentry">> ELSE <<>>)
        \o (IF leoDensity > 50 THEN <<"LEO density">> ELSE <<>>)]

\* The props: collision risks by level (each names its debris object), meteors
\* by which of the two filters they pass, debris (all in LEO) by whether
\* earthImpactRisk > 0.3, and satellites in LEO.
InitAnalyzer ==
  /\ analyzerProps \in
       [collisionRisks : [LOW : {1}, MEDIUM : {0, 3}, HIGH : 0..MaxHighRisks, CRITICAL : {0, 1}],
        meteors : [satellite : {0, 1, 4}, earth : {0, 1, 3}, both : {0, 1}, neither : {2}],
        debris : [reentry : {0, 3, 6, 11}, other : {5}],
        satellites : [LEO : {0, 50}]]
  /\ analysis = NoAnalysis
  /\ analysed = FALSE
  /\ sats = <<>>
  /\ thresholdKm = 5
  /\ windowMinutes = 60
  /\ sampleSec = 30
  /\ RunIdle
  /\ ClassIdle
  /\ ParseIdle
  /\ DetIdle
  /\ AsyncIdle
  /\ RiskIdle
  /\ HookIdle

\* setAnalysis({...}) of performCollisionAnalysis
PerformCollisionAnalysis ==
  /\ ~analysed
  /\ analysis' = performCollisionAnalysis(analyzerProps)
  /\ analysed' = TRUE
  /\ UNCHANGED <<analyzerProps, dashVars, runVars, classVars, parseVars, detVars, asyncVars,
                 riskVars, hookVars>>

NextAnalyzer == PerformCollisionAnalysis

SpecAnalyzer == InitAnalyzer /\ [][NextAnalyzer]_vars

\* The documented score of the five counts.
DocumentedScore(ss, sd, ms, me, dr) ==
  LET sum == (IF 5 * ss < 25 THEN 5 * ss ELSE 25) + (IF 3 * sd < 20 THEN 3 * sd ELSE 20)
             + (IF 8 * ms < 25 THEN 8 * ms ELSE 25) + (IF 10 * me < 20 THEN 10 * me ELSE 20)
             + (IF 2 * dr < 10 THEN 2 * dr ELSE 10)
  IN IF sum < 100 THEN sum ELSE 100

\* C18: the overall risk score is in 0..100 and equals
\* min(100, min(5*satSat, 25) + min(3*satDebris, 20) + min(8*meteorSat, 25)
\* + min(10*meteorEarth, 20) + min(2*debrisReentry, 10)) of the five counts of
\* the analysis; the caps add up to 100; and the score does not decrease when
\* any one count grows by one.
C18_OverallRiskScore ==
  analysed =>
    LET ss == analysis.satelliteSatelliteRisks
        sd == analysis.satelliteDebrisRisks
        ms == analysis.meteorSatelliteRisks
        me == analysis.meteorEarthRisks
        dr == analysis.debrisEarthReentryRisks
    IN /\ analysis.overallRiskScore \in 0..100
       /\ analysis.overallRiskScore = DocumentedScore(ss, sd, ms, me, dr)
       /\ 25 + 20 + 25 + 20 + 10 >= 100
       /\ OverallRiskScore(ss + 1, sd, ms, me, dr) >= analysis.overallRiskScore
       /\ OverallRiskScore(ss, sd + 1, ms, me, dr) >= analysis.overallRiskScore
       /\ OverallRiskScore(ss, sd, ms + 1, me, dr) >= analysis.overallRiskScore
       /\ OverallRiskScore(ss, sd, ms, me + 1, dr) >= analysis.overallRiskScore
       /\ OverallRiskScore(ss, sd, ms, me, dr + 1) >= analysis.overallRiskScore

\* Every category has reached its cap: the score is 100.
C18_Witness ==
  /\ analysed
  /\ analysis.satelliteSatelliteRisks > 5
  /\ analysis.satelliteDebrisRisks > 7
  /\ analysis.meteorSatelliteRisks > 4
  /\ analysis.meteorEarthRisks > 2
  /\ analysis.debrisEarthReentryRisks > 5
  /\ analysis.overallRiskScore = 100

(***************************************************************************)
(* useRealTimeSpaceData: fetchAllData and calculateRisksAndConjunctions.   *)
(* A double is kept as the pair (q, u) that stands for q/4 - u * 2^-53,    *)
(* a multiple of 1/4 or a value a few units of 2^-53 below one; the        *)
(* results of * and + are rounded to the nearest double, ties to even.     *)
(***************************************************************************)
\* fetchAllData calls that are started in one behaviour.
MaxCalls == 3

Dbl(q, u) == [q |-> q, u |-> u]

\* The distance between neighbouring doubles right below q/4, in units of
\* 2^-53: 2^(e+1) for the doubles in [2^e, 2^(e+1)), and every multiple of
\* 2^-53 below 1 is a double.
UlpBelow(q) ==
  IF q <= 4 THEN 1
  ELSE CHOOSE ulp \in {2, 4, 8, 16, 32, 64, 128, 256} : 2 * ulp < q /\ q <= 4 * ulp

\* The double nearest to q/4 - u * 2^-53 (round to nearest, ties to the even
\* significand; the significand of q/4 is even).
RoundToDouble(q, u) ==
  LET ulp == UlpBelow(q)
      k == u \div ulp
      r == u % ulp
      up == IF 2 * r > ulp \/ (2 * r = ulp /\ k % 2 = 1) THEN 1 ELSE 0
  IN Dbl(q, (k + up) * ulp)

\* c * x and x + y in double arithmetic, c a whole number
DblTimes(c, x) == RoundToDouble(c * x.q, c * x.u)
DblPlus(x, y) == RoundToDouble(x.q + y.q, x.u + y.u)

\* Math.floor(x)
DblFloor(x) == IF x.u = 0 THEN x.q \div 4 ELSE (x.q - 1) \div 4

\* Math.min(totalObjects / 1000, 1) for a multiple of 250, whose quotient by
\* 1000 is a multiple of 1/4.
RiskFactor(totalObjects) ==
  IF totalObjects >= 1000 THEN Dbl(4, 0) ELSE Dbl(totalObjects \div 250, 0)

\* Math.floor(n * 0.05), Math.floor(n * 0.15), Math.floor(n * 0.03), ... for a
\* whole number n: the floor of n * num / den (for the n that occur, up to
\* 20000, the rounding of the product does not cross a whole number).
FloorOfShare(n, num, den) == (n * num) \div den

\* const moderateRisks = totalRisks - criticalRisks - highRisks
ModerateRisks_OwnShare(totalRisks, criticalRisks, highRisks) == FloorOfShare(totalRisks, 80, 100)
ModerateRisks(totalRisks, criticalRisks, highRisks) == totalRisks - criticalRisks - highRisks

\* calculateRisksAndConjunctions, random being what Math.random() returns
calculateRisksAndConjunctions(satelliteCount, debrisCount, meteorCount, random) ==
  LET totalObjects == satelliteCount + debrisCount
      riskFactor == RiskFactor(totalObjects)
      totalRisks == DblFloor(DblPlus(DblTimes(100, riskFactor), DblTimes(50, random)))
      criticalRisks == FloorOfShare(totalRisks, 5, 100)
      highRisks == FloorOfShare(totalRisks, 15, 100)
      moderateRisks == ModerateRisks(totalRisks, criticalRisks, highRisks)
      totalConjunctions == FloorOfShare(satelliteCount, 3, 100)
      upcomingConjunctions == FloorOfShare(totalConjunctions, 4, 10)
      withinDayConjunctions == FloorOfShare(upcomingConjunctions, 3, 10)
  IN [collisionRisks |-> [total |-> totalRisks, critical |-> criticalRisks, high |-> highRisks,
                          moderate |-> moderateRisks],
      conjunctions |-> [total |-> totalConjunctions, upcoming |-> upcomingConjunctions,
                        withinDay |-> withinDayConjunctions]]

\* What one fetchAllData call works on: the counts the three fetch functions
\* return (0 is the fallback of the first two, 157 the one of fetchMeteorData;
\* satellites and debris in multiples of 250) and the value of Math.random():
\* 0, 1/4, 1/2, 3/4 or one of the doubles 2^-53, 2^-52, 2^-51, 2^-50 below 1.
HookDraws ==
  [satelliteCount : {0, 250, 500, 1000, 10000},
   debrisCount : {0, 250, 3000},
   meteorCount : {100, 157},
   random : {Dbl(0, 0), Dbl(1, 0), Dbl(2, 0), Dbl(3, 0), Dbl(4, 1), Dbl(4, 2), Dbl(4, 4),
             Dbl(4, 8)}]

\* The hook before its effect has run.
InitHook ==
  /\ HookIdle
  /\ sats = <<>>
  /\ thresholdKm = 5
  /\ windowMinutes = 60
  /\ sampleSec = 30
  /\ RunIdle
  /\ ClassIdle
  /\ ParseIdle
  /\ DetIdle
  /\ AsyncIdle
  /\ RiskIdle
  /\ AnalyzerIdle

\* fetchAllData up to its await: setLoading(true) and the three requests.
StartFetchAllData ==
  /\ hookStarted < MaxCalls
  /\ hookLoading' = TRUE
  /\ hookStarted' = hookStarted + 1
  /\ hookInFlight' = hookInFlight + 1
  /\ UNCHANGED <<hookDraw, hookData>>
  /\ UNCHANGED <<dashVars, runVars, classVars, parseVars, detVars, asyncVars, riskVars,
                 analyzerVars>>

\* useEffect(() => { fetchAllData(); setInterval(fetchAllData, 5 * 60 * 1000) }, [])
HookMountEffect ==
  /\ ~hookMounted
  /\ hookMounted' = TRUE
  /\ StartFetchAllData

\* The interval fires.
IntervalFires ==
  /\ hookMounted
  /\ StartFetchAllData
  /\ UNCHANGED hookMounted

\* refreshData()
RefreshData ==
  /\ hookMounted
  /\ StartFetchAllData
  /\ UNCHANGED hookMounted

\* fetchAllData after its await: the three fetch functions, which catch their
\* own errors, have returned their counts; setData and, in finally,
\* setLoading(false).
FetchAllDataSettles ==
  /\ hookInFlight > 0
  /\ \E draw \in HookDraws :
       /\ hookDraw' = draw
       /\ hookData' = calculateRisksAndConjunctions(draw.satelliteCount, draw.debrisCount,
                                                    draw.meteorCount, draw.random)
  /\ hookLoading' = FALSE
  /\ hookInFlight' = hookInFlight - 1
  /\ UNCHANGED <<hookMounted, hookStarted>>
  /\ UNCHANGED <<dashVars, runVars, classVars, parseVars, detVars, asyncVars, riskVars,
                 analyzerVars>>

NextHook ==
  \/ HookMountEffect
  \/ IntervalFires
  \/ RefreshData
  \/ FetchAllDataSettles

SpecHook == InitHook /\ [][NextHook]_vars

\* C29: loading is true in every state in which a fetchAllData call is in
\* flight, also when a manual refreshData overlaps the automatic refresh, and
\* it is false once no call is in flight.
C29_LoadingWhileInFlight ==
  /\ hookInFlight > 0 => hookLoading
  /\ hookInFlight = 0 => ~hookLoading

\* The three risk counts are non-negative and add up to the total, which is
\* in 0..most.
RiskCountsWithin(most) ==
  LET r == hookData.collisionRisks
  IN /\ r.critical >= 0 /\ r.high >= 0 /\ r.moderate >= 0
     /\ r.critical + r.high + r.moderate = r.total
     /\ 0 <= r.total /\ r.total <= most

\* 0 <= withinDay <= upcoming <= total <= satelliteCount
ConjunctionCountsNested ==
  LET c == hookData.conjunctions
  IN /\ 0 <= c.withinDay
     /\ c.withinDay <= c.upcoming
     /\ c.upcoming <= c.total
     /\ c.total <= hookDraw.satelliteCount

\* C30 as stated: for every satellite, debris and meteor count and every value
\* of the random term, critical + high + moderate = total with all three
\* non-negative and 0 <= total <= 149, and
\* 0 <= withinDay <= upcoming <= total <= satelliteCount.
C30_TotalAtMost149 == RiskCountsWithin(149) /\ ConjunctionCountsNested

\* C30, with the bound the double arithmetic gives: the same, with
\* 0 <= total <= 150 (150 is reached when riskFactor is 1 and Math.random()
\* is one of its two largest values, for which 100 + random * 50 rounds to
\* 150).
C30_RiskSummaryInvariants == RiskCountsWithin(150) /\ ConjunctionCountsNested

\* A call settled with 1000 or more objects and the largest value of
\* Math.random() below 1 that is a multiple of 2^-52: the total is 150, and
\* its 10000 satellites give 300, 120 and 36 conjunctions.
C30_Witness ==
  /\ hookStarted > 0
  /\ hookDraw.satelliteCount = 10000
  /\ hookDraw.random = Dbl(4, 2)
  /\ hookData.collisionRisks = [total |-> 150, critical |-> 7, high |-> 22, moderate |-> 121]
  /\ hookData.conjunctions = [total |-> 300, upcoming |-> 120, withinDay |-> 36]

====
